---- MODULE Spec2Model ----
(***************************************************************************)
(* A model of SimpleHTTPFileServer (src/SimpleHTTPFileServer.py, v1.10.1,  *)
(* and the path check of its Python 3.5 port).                             *)
(*                                                                         *)
(* Strings are sequences of tokens: a token is either the separator "/"    *)
(* or one whole path segment ("a", "..", ".").  A filesystem path is the   *)
(* sequence of its segments from the filesystem root, so "/" is <<>>.      *)
(* Symbolic links carry absolute targets.  The rendering of pages (HTML,   *)
(* human-readable sizes) is outside the model: a response is its status,   *)
(* its redirect location and the outcome text of the mutation handler.     *)
(***************************************************************************)
EXTENDS Integers, Sequences, FiniteSets, TLC

VARIABLES fs, fd, ro, hd, ld, prefix, https, nreq, pre, req, resp, prev, chk,
          reg, call, job, lpsvr, net

vars == <<fs, fd, ro, hd, ld, prefix, https, nreq, pre, req, resp, prev, chk,
          reg, call, job, lpsvr, net>>

\* ------------------------------------------------------------------ bounds

\* Requests handled in one behaviour.
MaxReq == 2

\* Files in one upload request.
MaxBatch == 2

\* Calls of the constructor, add_share, add_subapp and remove in one
\* behaviour.
MaxCalls == 2

\* Listen endpoints of the server.
MaxListen == 2

\* Calls of __aenter__, __aexit__ and run in one behaviour.
MaxStarts == 3

\* Tokens (separators and segments) in a request path.
MaxPathLen == 5

\* Requests of one client that follows the redirects it is answered with.
MaxHops == 8

\* ------------------------------------------------------------- path algebra

SEP == "/"

IsPrefix(p, q) == Len(p) <= Len(q) /\ SubSeq(q, 1, Len(p)) = p

\* pathlib.PurePath.parent and .name (lexical).
Parent(p) == IF p = <<>> THEN <<>> ELSE SubSeq(p, 1, Len(p) - 1)

PName(p) == IF p = <<>> THEN "" ELSE p[Len(p)]

\* str.startswith on token strings.
StartsWith(s, pfx) == IsPrefix(pfx, s)

DropFirst(s, n) == SubSeq(s, n + 1, Len(s))

RECURSIVE SplitSegs(_, _)
\* The segments of a token string, in order, split at the separators
\* (empty segments included as "").
SplitSegs(s, cur) ==
    IF s = <<>> THEN <<cur>>
    ELSE IF Head(s) = SEP THEN <<cur>> \o SplitSegs(Tail(s), "")
    ELSE SplitSegs(Tail(s), Head(s))

RECURSIVE DropDots(_)
DropDots(segs) ==
    IF segs = <<>> THEN <<>>
    ELSE IF Head(segs) \in {"", "."} THEN DropDots(Tail(segs))
    ELSE <<Head(segs)>> \o DropDots(Tail(segs))

\* pathlib.Path(s): .anchor is non-empty for a leading separator; .parts
\* without the anchor drops empty and "." segments and keeps "..".
PathOf(s) ==
    [anchor |-> s # <<>> /\ Head(s) = SEP,
     parts  |-> DropDots(SplitSegs(s, ""))]

\* len(p.parts) of a pathlib.Path: the anchor is a part of its own.
len_parts(p) == Len(p.parts) + (IF p.anchor THEN 1 ELSE 0)

\* --------------------------------------------------------------- filesystem

DirNode == [kind |-> "dir", data |-> 0, target |-> <<>>]

FileNode(d) == [kind |-> "file", data |-> d, target |-> <<>>]

LinkNode(t) == [kind |-> "link", data |-> 0, target |-> t]

NLinks(f) == Cardinality({p \in DOMAIN f : f[p].kind = "link"})

RECURSIVE Walk(_, _, _, _, _)
\* os.path.realpath / pathlib resolve: follows every symbolic link; ".."
\* drops the last segment of what is resolved so far; with strict a missing
\* component is an error, without it the rest is appended as it is.
Walk(f, cur, rest, strict, fuel) ==
    IF rest = <<>> THEN [err |-> "", path |-> cur]
    ELSE LET name == Head(rest)
             more == Tail(rest)
             newpath == Append(cur, name)
         IN  IF name = ".." THEN Walk(f, Parent(cur), more, strict, fuel)
             ELSE IF newpath \notin DOMAIN f
             THEN IF strict
                  THEN [err |-> IF cur \in DOMAIN f /\ f[cur].kind = "file"
                                THEN "ENOTDIR" ELSE "ENOENT",
                        path |-> newpath]
                  ELSE Walk(f, newpath, more, strict, fuel)
             ELSE IF f[newpath].kind = "link"
             THEN IF fuel = 0 THEN [err |-> "ELOOP", path |-> newpath]
                  ELSE LET t == Walk(f, <<>>, f[newpath].target, strict, fuel - 1)
                       IN  IF t.err # "" THEN t
                           ELSE Walk(f, t.path, more, strict, fuel)
             ELSE Walk(f, newpath, more, strict, fuel)

\* Path.resolve(strict=...)
resolve(f, p, strict) == Walk(f, <<>>, p, strict, NLinks(f))

RECURSIVE KWalk(_, _, _, _)
\* The kernel's path walk (stat, open): every component but the last must
\* be a directory, also before "..", and every link is followed.  creat
\* tells that only the last component is missing, under a directory: the
\* place where open(..., 'w') would create the file.
KWalk(f, cur, rest, fuel) ==
    IF rest = <<>> THEN [err |-> "", path |-> cur, creat |-> FALSE]
    ELSE IF cur \notin DOMAIN f THEN [err |-> "ENOENT", path |-> cur, creat |-> FALSE]
    ELSE IF f[cur].kind # "dir" THEN [err |-> "ENOTDIR", path |-> cur, creat |-> FALSE]
    ELSE LET name == Head(rest)
             more == Tail(rest)
             newpath == Append(cur, name)
         IN  IF name = ".." THEN KWalk(f, Parent(cur), more, fuel)
             ELSE IF newpath \notin DOMAIN f
             THEN [err |-> "ENOENT", path |-> newpath, creat |-> more = <<>>]
             ELSE IF f[newpath].kind = "link"
             THEN IF fuel = 0 THEN [err |-> "ELOOP", path |-> newpath, creat |-> FALSE]
                  ELSE LET t == KWalk(f, <<>>, f[newpath].target, fuel - 1)
                       IN  IF t.err # ""
                           THEN [err |-> t.err, path |-> t.path,
                                 creat |-> t.creat /\ more = <<>>]
                           ELSE KWalk(f, t.path, more, fuel)
             ELSE KWalk(f, newpath, more, fuel)

\* os.stat(p): the node p names after following links, or the error.
stat(f, p) == KWalk(f, <<>>, p, NLinks(f))

\* Path.exists() of Python 3.5: False for ENOENT and ENOTDIR, any other
\* error is raised.
exists35(f, p) ==
    LET E(s) == [raised |-> s.err = "ELOOP", val |-> s.err = ""]
    IN  E(stat(f, p))

\* Path.exists(), is_dir(), is_file(), is_symlink() of Python >= 3.6 on the
\* paths the handlers ask about.
exists(f, p) == stat(f, p).err = ""

is_dir(f, p) ==
    LET D(s) == s.err = "" /\ f[s.path].kind = "dir" IN D(stat(f, p))

is_file(f, p) ==
    LET D(s) == s.err = "" /\ f[s.path].kind = "file" IN D(stat(f, p))

is_symlink(f, p) ==
    LET D(s) == /\ s.err = ""
                /\ PName(p) # ".."
                /\ Append(s.path, PName(p)) \in DOMAIN f
                /\ f[Append(s.path, PName(p))].kind = "link"
    IN  p # <<>> /\ D(stat(f, Parent(p)))

\* ------------------------------------------------------------ the path check

\* Server._local_path_check resolving only the parent of a path that does
\* not exist, and putting the name back on it: a plausible slip.
LocalPathCheckTailUnresolved(f, path, root, strict_flag) ==
    LET Rebuild(rp) == [err |-> rp.err, path |-> Append(rp.path, PName(path))]
        Checked(r) ==
            IF r.err = "ENOENT" THEN [exc |-> "HTTPNotFound", res |-> <<>>]
            ELSE IF r.err # "" THEN [exc |-> "HTTPForbidden", res |-> <<>>]
            ELSE IF ~IsPrefix(root, r.path) THEN [exc |-> "HTTPForbidden", res |-> <<>>]
            ELSE [exc |-> "", res |-> r.path]
    IN  Checked(IF strict_flag \/ exists(f, path) \/ path = <<>>
                THEN resolve(f, path, strict_flag)
                ELSE Rebuild(resolve(f, Parent(path), FALSE)))

\* Server._local_path_check (Python >= 3.6).
_local_path_check(f, path, root, strict_flag) ==
    LET Checked(r) ==
            IF r.err = "ENOENT" THEN [exc |-> "HTTPNotFound", res |-> <<>>]
            ELSE IF r.err # "" THEN [exc |-> "HTTPForbidden", res |-> <<>>]
            ELSE IF ~IsPrefix(root, r.path) THEN [exc |-> "HTTPForbidden", res |-> <<>>]
            ELSE [exc |-> "", res |-> r.path]
    IN  Checked(resolve(f, path, strict_flag))

RECURSIVE Peel35(_, _, _)
\* The loop of the Python 3.5 port: drop trailing components while the path
\* does not exist; l collects the dropped names, last one first.
Peel35(f, path, l) ==
    LET Peeled(e) ==
            IF e.raised THEN [raised |-> TRUE, path |-> path, l |-> l]
            ELSE IF e.val \/ path = <<>> THEN [raised |-> FALSE, path |-> path, l |-> l]
            ELSE Peel35(f, Parent(path), <<PName(path)>> \o l)
    IN  Peeled(exists35(f, path))

\* Server._local_path_check of SimpleHTTPFileServer-py3.5.py.
_local_path_check35(f, path, root, strict_flag) ==
    LET Rebuilt(pl, r) ==
            IF pl.raised THEN [exc |-> "HTTPForbidden", res |-> <<>>]
            ELSE IF r.err = "ENOENT" THEN [exc |-> "HTTPNotFound", res |-> <<>>]
            ELSE IF r.err # "" THEN [exc |-> "HTTPForbidden", res |-> <<>>]
            ELSE IF ~IsPrefix(root, r.path \o pl.l)
            THEN [exc |-> "HTTPForbidden", res |-> <<>>]
            ELSE [exc |-> "", res |-> r.path \o pl.l]
        Peeled(pl) == Rebuilt(pl, resolve(f, pl.path, TRUE))
    IN  IF strict_flag
        THEN _local_path_check(f, path, root, TRUE)
        ELSE Peeled(Peel35(f, path, <<>>))

\* ------------------------------------------------------ filesystem operations
\* Each returns [err, fs]: err is "" and fs the new filesystem, or err names
\* the exception and fs is the filesystem as the failed call left it.

\* os.lstat(p): the entry p names, the last component not followed.
lstat(f, p) ==
    LET In(d) ==
            IF d.err # "" THEN [err |-> d.err, path |-> d.path, creat |-> FALSE]
            ELSE IF f[d.path].kind # "dir"
            THEN [err |-> "ENOTDIR", path |-> d.path, creat |-> FALSE]
            ELSE IF Append(d.path, PName(p)) \in DOMAIN f
            THEN [err |-> "", path |-> Append(d.path, PName(p)), creat |-> FALSE]
            ELSE [err |-> "ENOENT", path |-> Append(d.path, PName(p)), creat |-> TRUE]
    IN  IF p = <<>> \/ PName(p) = ".." THEN stat(f, p)
        ELSE In(stat(f, Parent(p)))

Put(f, p, node) == [q \in (DOMAIN f) \cup {p} |-> IF q = p THEN node ELSE f[q]]

SubTree(f, p) == {q \in DOMAIN f : IsPrefix(p, q)}

Without(f, gone) == [q \in (DOMAIN f) \ gone |-> f[q]]

ReRoot(q, src, dst) == dst \o SubSeq(q, Len(src) + 1, Len(q))

\* Path.open('wb'): creates the file or truncates it, through links.
open_wb(f, p) ==
    LET Opened(s) ==
            IF s.err = ""
            THEN IF f[s.path].kind = "dir"
                 THEN [err |-> "IsADirectoryError", fs |-> f, at |-> s.path]
                 ELSE [err |-> "", fs |-> Put(f, s.path, FileNode(0)), at |-> s.path]
            ELSE IF s.creat
            THEN [err |-> "", fs |-> Put(f, s.path, FileNode(0)), at |-> s.path]
            ELSE [err |-> s.err, fs |-> f, at |-> s.path]
    IN  Opened(stat(f, p))

\* Path.unlink(): removes a file or a link, never a directory.
unlink(f, p) ==
    LET Unlinked(s) ==
            IF s.err # "" THEN [err |-> s.err, fs |-> f]
            ELSE IF f[s.path].kind = "dir" THEN [err |-> "IsADirectoryError", fs |-> f]
            ELSE [err |-> "", fs |-> Without(f, {s.path})]
    IN  Unlinked(lstat(f, p))

\* Path.mkdir()
mkdir(f, p) ==
    LET Made(s) ==
            IF s.err = "" THEN [err |-> "FileExistsError", fs |-> f]
            ELSE IF s.creat THEN [err |-> "", fs |-> Put(f, s.path, DirNode)]
            ELSE [err |-> s.err, fs |-> f]
    IN  Made(lstat(f, p))

\* shutil.rmtree(p): the directory and all below it; refuses a link.
rmtree(f, p) ==
    LET Removed(s) ==
            IF s.err # "" THEN [err |-> s.err, fs |-> f]
            ELSE IF f[s.path].kind # "dir" THEN [err |-> "NotADirectoryError", fs |-> f]
            ELSE [err |-> "", fs |-> Without(f, SubTree(f, s.path))]
    IN  Removed(lstat(f, p))

\* os.rename(src, dst) / Path.rename: moves the entry with all below it;
\* a file or link replaces an existing file or link.
rename(f, src, dst) ==
    LET Renamed(s, d) ==
            LET moved == [q \in ((DOMAIN f) \ SubTree(f, s.path))
                                \cup {ReRoot(x, s.path, d.path) : x \in SubTree(f, s.path)} |->
                            IF IsPrefix(d.path, q)
                            THEN f[s.path \o SubSeq(q, Len(d.path) + 1, Len(q))]
                            ELSE f[q]]
                ok == IF d.err = ""
                      THEN f[s.path].kind # "dir" /\ f[d.path].kind # "dir"
                      ELSE d.creat /\ ~IsPrefix(s.path, d.path)
            IN  IF s.err # "" THEN [err |-> s.err, fs |-> f]
                ELSE IF s.path = <<>> THEN [err |-> "EBUSY", fs |-> f]
                ELSE IF d.err = "" /\ d.path = s.path THEN [err |-> "", fs |-> f]
                ELSE IF ok THEN [err |-> "", fs |-> moved]
                ELSE IF d.err = "" THEN [err |-> "EEXIST", fs |-> f]
                ELSE IF ~d.creat THEN [err |-> d.err, fs |-> f]
                ELSE [err |-> "EINVAL", fs |-> f]
    IN  Renamed(lstat(f, src), lstat(f, dst))

\* os.makedirs(p): p must not exist; every missing ancestor is created.
makedirs(f, p) ==
    LET pfx == {SubSeq(p, 1, n) : n \in 0..Len(p)}
    IN  IF p \in DOMAIN f THEN [err |-> "FileExistsError", fs |-> f]
        ELSE IF \E q \in pfx : q \in DOMAIN f /\ f[q].kind # "dir"
        THEN [err |-> "NotADirectoryError", fs |-> f]
        ELSE [err |-> "",
              fs |-> [q \in (DOMAIN f) \cup pfx |->
                         IF q \in DOMAIN f THEN f[q] ELSE DirNode]]

\* shutil.copy2(src, dst, follow_symlinks=False): a link is copied as a
\* link, a file by content.
_func_cp2(f, src, dst) ==
    LET Copied(s, d, o) ==
            IF s.err # "" THEN [err |-> s.err, fs |-> f]
            ELSE IF f[s.path].kind = "link"
            THEN IF d.err = "" THEN [err |-> "FileExistsError", fs |-> f]
                 ELSE IF ~d.creat THEN [err |-> d.err, fs |-> f]
                 ELSE [err |-> "", fs |-> Put(f, d.path, f[s.path])]
            ELSE IF f[s.path].kind = "dir" THEN [err |-> "IsADirectoryError", fs |-> f]
            ELSE IF o.err # "" THEN [err |-> o.err, fs |-> f]
            ELSE [err |-> "", fs |-> Put(o.fs, o.at, FileNode(f[s.path].data))]
    IN  Copied(lstat(f, src), lstat(f, dst), open_wb(f, dst))

\* shutil.copytree(src, dst, symlinks=True): the entries of src are listed
\* before dst is made, links are copied as links.
_func_cpt(f, src, dst) ==
    LET Copied(s, m) ==
            IF s.err # "" THEN [err |-> s.err, fs |-> f]
            ELSE IF f[s.path].kind # "dir" THEN [err |-> "NotADirectoryError", fs |-> f]
            ELSE IF m.err # "" THEN m
            ELSE [err |-> "",
                  fs |-> [q \in (DOMAIN m.fs)
                                \cup {ReRoot(x, s.path, dst) :
                                        x \in SubTree(f, s.path) \ {s.path}} |->
                             IF IsPrefix(dst, q) /\ q # dst
                             THEN f[s.path \o SubSeq(q, Len(dst) + 1, Len(q))]
                             ELSE m.fs[q]]]
    IN  Copied(stat(f, src), makedirs(f, dst))

\* shutil.move(src, dst) for a dst that is no directory: os.rename, and when
\* that fails, copy and remove.
move(f, src, dst) ==
    LET Then(c, rm(_, _)) == IF c.err # "" THEN c ELSE rm(c.fs, src)
        Moved(r, s) ==
            IF r.err = "" THEN r
            ELSE IF s.err # "" THEN [err |-> s.err, fs |-> f]
            ELSE IF f[s.path].kind = "dir"
            THEN IF IsPrefix(s.path, dst) THEN [err |-> "Error", fs |-> f]
                 ELSE Then(_func_cpt(f, src, dst), rmtree)
            ELSE Then(_func_cp2(f, src, dst), unlink)
    IN  Moved(rename(f, src, dst), lstat(f, src))

\* ------------------------------------------------------------- URL strings

RECURSIVE CollapsePairs(_)
\* Server._re_pattern as '//' in place of '/{2,}': every pair of separators
\* becomes one.
CollapsePairs(s) ==
    IF Len(s) < 2 THEN s
    ELSE IF s[1] = SEP /\ s[2] = SEP THEN <<SEP>> \o CollapsePairs(SubSeq(s, 3, Len(s)))
    ELSE <<Head(s)>> \o CollapsePairs(Tail(s))

RECURSIVE Collapse(_)
\* Server._re_pattern.sub('/', s): every run of separators becomes one.
Collapse(s) ==
    IF Len(s) < 2 THEN s
    ELSE IF s[1] = SEP /\ s[2] = SEP THEN Collapse(Tail(s))
    ELSE <<Head(s)>> \o Collapse(Tail(s))

RECURSIVE JoinSegs(_)
\* '/'.join(segments)
JoinSegs(segs) ==
    IF segs = <<>> THEN <<>>
    ELSE (IF Head(segs) = "" THEN <<>> ELSE <<Head(segs)>>)
         \o (IF Len(segs) > 1 THEN <<SEP>> \o JoinSegs(Tail(segs)) ELSE <<>>)

RECURSIVE ResolveDots(_, _)
\* The loop of urljoin that applies "." and ".." segments.
ResolveDots(segs, acc) ==
    IF segs = <<>> THEN acc
    ELSE IF Head(segs) = ".."
    THEN ResolveDots(Tail(segs), IF acc = <<>> THEN acc ELSE SubSeq(acc, 1, Len(acc) - 1))
    ELSE IF Head(segs) = "." THEN ResolveDots(Tail(segs), acc)
    ELSE ResolveDots(Tail(segs), Append(acc, Head(segs)))

\* urllib.parse.urljoin(base, url) for URLs without scheme, query or fragment.
urljoin(base, url) ==
    LET Joined(j) == IF j = <<>> THEN <<SEP>> ELSE j
        Resolved(segments, res) ==
            Joined(JoinSegs(IF segments[Len(segments)] \in {".", ".."}
                            THEN Append(res, "") ELSE res))
        Segs(segments) == Resolved(segments, ResolveDots(segments, <<>>))
        Merged(all) ==
            Segs(IF Len(all) < 2 THEN all
                 ELSE <<all[1]>>
                      \o SelectSeq(SubSeq(all, 2, Len(all) - 1), LAMBDA x : x # "")
                      \o <<all[Len(all)]>>)
        Based(bp) ==
            Merged((IF bp[Len(bp)] # "" THEN SubSeq(bp, 1, Len(bp) - 1) ELSE bp)
                   \o SplitSegs(url, ""))
    IN  IF url = <<>> THEN base
        ELSE IF Len(url) >= 2 /\ url[1] = SEP /\ url[2] = SEP THEN url
        ELSE IF url[1] = SEP THEN Segs(SplitSegs(url, ""))
        ELSE Based(SplitSegs(base, ""))

\* ------------------------------------------------------------------ routing

FirstSep(s) ==
    IF \E i \in 1..Len(s) : s[i] = SEP
    THEN CHOOSE i \in 1..Len(s) : s[i] = SEP /\ \A j \in 1..(i - 1) : s[j] # SEP
    ELSE 0

NoRoute ==
    [exc |-> "", loc |-> <<>>, allow |-> {}, app |-> FALSE, share_name |-> "",
     home |-> FALSE, root |-> <<>>, readonly |-> FALSE, rest |-> <<>>]

\* Server._web_path with the method tests of lines 247-251 left out.
WebPathNoMethodCheck(pathstr, method) ==
    LET Routed(share, slash, rp) ==
            LET name == IF share = <<>> THEN "" ELSE share[1]
                home == share = <<>>
                known == ~home /\ name \in DOMAIN fd
                readonly == home \/ name \in ro
            IN  IF home /\ slash
                THEN [NoRoute EXCEPT !.exc = "AssertionError"]
                ELSE IF ~home /\ ~known THEN [NoRoute EXCEPT !.exc = "HTTPNotFound"]
                ELSE IF known /\ fd[name].app
                THEN [NoRoute EXCEPT !.app = TRUE, !.share_name = name]
                ELSE IF rp.anchor THEN [NoRoute EXCEPT !.exc = "HTTPForbidden"]
                ELSE [NoRoute EXCEPT !.share_name = name, !.home = home,
                                     !.root = IF home THEN <<>> ELSE fd[name].path,
                                     !.readonly = readonly, !.rest = rp.parts]
        Cut(tail, i) ==
            Routed(IF i = 0 THEN tail ELSE SubSeq(tail, 1, i - 1), i # 0,
                   PathOf(IF i = 0 THEN <<>> ELSE SubSeq(tail, i + 1, Len(tail))))
        Tailed(tail) == Cut(tail, FirstSep(tail))
    IN  IF ~StartsWith(pathstr, prefix)
        THEN [NoRoute EXCEPT !.exc = "HTTPMovedPermanently", !.loc = prefix]
        ELSE Tailed(DropFirst(pathstr, Len(prefix)))

\* Server._web_path(pathstr, method); method "" stands for None.
_web_path(pathstr, method) ==
    LET Routed(share, slash, rp) ==
            LET name == IF share = <<>> THEN "" ELSE share[1]
                home == share = <<>>
                known == ~home /\ name \in DOMAIN fd
                readonly == home \/ name \in ro
            IN  IF home /\ slash
                THEN [NoRoute EXCEPT !.exc = "AssertionError"]
                ELSE IF ~home /\ ~known THEN [NoRoute EXCEPT !.exc = "HTTPNotFound"]
                ELSE IF known /\ fd[name].app
                THEN [NoRoute EXCEPT !.app = TRUE, !.share_name = name]
                ELSE IF method # "" /\ readonly /\ method # "GET"
                THEN [NoRoute EXCEPT !.exc = "HTTPMethodNotAllowed", !.allow = {"GET"}]
                ELSE IF method # "" /\ method # "GET" /\ method # "POST"
                THEN [NoRoute EXCEPT !.exc = "HTTPMethodNotAllowed",
                                     !.allow = {"GET", "POST"}]
                ELSE IF rp.anchor THEN [NoRoute EXCEPT !.exc = "HTTPForbidden"]
                ELSE [NoRoute EXCEPT !.share_name = name, !.home = home,
                                     !.root = IF home THEN <<>> ELSE fd[name].path,
                                     !.readonly = readonly, !.rest = rp.parts]
        Cut(tail, i) ==
            Routed(IF i = 0 THEN tail ELSE SubSeq(tail, 1, i - 1), i # 0,
                   PathOf(IF i = 0 THEN <<>> ELSE SubSeq(tail, i + 1, Len(tail))))
        Tailed(tail) == Cut(tail, FirstSep(tail))
    IN  IF ~StartsWith(pathstr, prefix)
        THEN [NoRoute EXCEPT !.exc = "HTTPMovedPermanently", !.loc = prefix]
        ELSE Tailed(DropFirst(pathstr, Len(prefix)))

\* Server._web_path of SimpleHTTPFileServer-py3.5.py: no prefix, and no
\* sub-applications.
_web_path35(pathstr, method) ==
    LET Routed(share, slash, rp) ==
            LET name == IF share = <<>> THEN "" ELSE share[1]
                home == share = <<>>
                known == ~home /\ name \in DOMAIN fd
                readonly == home \/ name \in ro
            IN  IF home /\ slash
                THEN [NoRoute EXCEPT !.exc = "AssertionError"]
                ELSE IF ~home /\ ~known THEN [NoRoute EXCEPT !.exc = "HTTPNotFound"]
                ELSE IF method # "" /\ readonly /\ method # "GET"
                THEN [NoRoute EXCEPT !.exc = "HTTPMethodNotAllowed", !.allow = {"GET"}]
                ELSE IF method # "" /\ method # "GET" /\ method # "POST"
                THEN [NoRoute EXCEPT !.exc = "HTTPMethodNotAllowed",
                                     !.allow = {"GET", "POST"}]
                ELSE IF rp.anchor THEN [NoRoute EXCEPT !.exc = "HTTPForbidden"]
                ELSE [NoRoute EXCEPT !.share_name = name, !.home = home,
                                     !.root = IF home THEN <<>> ELSE fd[name].path,
                                     !.readonly = readonly, !.rest = rp.parts]
        Cut(tail, i) ==
            Routed(IF i = 0 THEN tail ELSE SubSeq(tail, 1, i - 1), i # 0,
                   PathOf(IF i = 0 THEN <<>> ELSE SubSeq(tail, i + 1, Len(tail))))
        Tailed(tail) == Cut(tail, FirstSep(tail))
    IN  IF pathstr[1] # SEP THEN [NoRoute EXCEPT !.exc = "AssertionError"]
        ELSE Tailed(DropFirst(pathstr, 1))

\* ------------------------------------------------------- mutation handlers
\* A handler returns [fs, exc, result, released, calls, tried]: the
\* filesystem it leaves, the exception that escapes it ("" for none), the
\* text it returns, whether reader.release() was awaited, the filesystem
\* calls it made in order, and (upload) how many file fields it took up.

Msg(m, a) == [msg |-> m, arg |-> a, lines |-> <<>>]

Call(o, p) == [op |-> o, path |-> p, role |-> "", src |-> <<>>, name |-> <<>>]

CallR(o, p, r) == [op |-> o, path |-> p, role |-> r, src |-> <<>>, name |-> <<>>]

\* The call op(s, p) of Server._post_copy_move, with the variable name of
\* the method, which the answer quotes.
CallFrom(o, s, p, n) == [op |-> o, path |-> p, role |-> "", src |-> s, name |-> n]

Unbound == [bound |-> FALSE, p |-> <<>>]

Bound(p) == [bound |-> TRUE, p |-> p]

RECURSIVE UploadLoop(_, _, _, _, _, _, _, _)
\* The while loop of Server._post_upload from field i on; r is the list of
\* outcome lines so far and newp the variable newp of the method, which
\* keeps its value from one iteration to the next.  A field's cancel tells
\* that the request's task is cancelled at await field.read_chunk() (line
\* 274) and what asyncio.CancelledError derives from in the running Python:
\* Exception (3.6, 3.7), which line 278 catches, or BaseException (3.8 on),
\* which it does not; the file then holds the chunks written so far, none
\* in the model.
UploadLoop(f, body, i, r, newp, path, root, calls) ==
    LET filename == body[i].filename
        Report(lines) == [msg |-> "Upload Result:", arg |-> <<>>, lines |-> lines]
        Unlinked(u, np, cl) ==
            [fs |-> u.fs, exc |-> "",
             result |-> Report(Append(r, Msg("Failed", filename))),
             released |-> TRUE,
             calls |-> IF np.bound THEN Append(cl, Call("unlink", np.p)) ELSE cl,
             tried |-> i]
        Failed(f2, np, cl) ==
            Unlinked(IF np.bound THEN unlink(f2, np.p)
                     ELSE [err |-> "NameError", fs |-> f2], np, cl)
        Reading(o, c, c3) ==
            IF body[i].fail \/ body[i].cancel = "Exception"
            THEN Failed(o.fs, Bound(c.res), c3)
            ELSE IF body[i].cancel = "BaseException"
            THEN [fs |-> o.fs, exc |-> "CancelledError", result |-> Msg("", <<>>),
                  released |-> FALSE, calls |-> c3, tried |-> i]
            ELSE UploadLoop(Put(o.fs, o.at, FileNode(body[i].data)), body, i + 1,
                            Append(r, Msg("Successful", filename)),
                            Bound(c.res), path, root, c3)
        Written(o, c, c2) ==
            IF o.err # "" THEN Failed(f, Bound(c.res), c2)
            ELSE Reading(o, c, Append(c2, Call("read_chunk", c.res)))
        Checked(c, c1) ==
            IF c.exc # "" THEN Failed(f, newp, c1)
            ELSE Written(open_wb(f, c.res), c, Append(c1, Call("open", c.res)))
        Named(fp) ==
            IF len_parts(fp) # 1 \/ fp.anchor
            THEN [fs |-> f, exc |-> "", result |-> Msg("Illegal filename", <<>>),
                  released |-> FALSE, calls |-> calls, tried |-> i]
            ELSE Checked(_local_path_check(f, path \o fp.parts, root, FALSE),
                         Append(calls, Call("resolve", path \o fp.parts)))
    IN  IF i > Len(body) \/ body[i].name # "0"
        THEN [fs |-> f, exc |-> "", result |-> Report(r),
              released |-> TRUE, calls |-> calls, tried |-> i - 1]
        ELSE Named(PathOf(filename))

\* Server._post_upload
_post_upload(f, body, path, root) ==
    UploadLoop(f, body, 1, <<>>, Unbound, path, root, <<>>)

\* Server._post_upload of SimpleHTTPFileServer-py3.5.py for one file whose
\* content arrives whole.  When the path check or the open fails, the except
\* clause formats three fields with two arguments (lines 232-233): the
\* IndexError leaves the method before anything is removed or released.
_post_upload35(f, body, path, root) ==
    LET filename == body[1].filename
        Report(lines) == [msg |-> "Upload Result:", arg |-> <<>>, lines |-> lines]
        Raise(cl) ==
            [fs |-> f, exc |-> "IndexError", result |-> Msg("", <<>>),
             released |-> FALSE, calls |-> cl, tried |-> 1]
        Written(o, c, c2) ==
            IF o.err # "" THEN Raise(c2)
            ELSE [fs |-> Put(o.fs, o.at, FileNode(body[1].data)), exc |-> "",
                  result |-> Report(<<Msg("Successful", filename)>>),
                  released |-> TRUE, calls |-> Append(c2, Call("read_chunk", c.res)),
                  tried |-> 1]
        Checked(c, c1) ==
            IF c.exc # "" THEN Raise(c1)
            ELSE Written(open_wb(f, c.res), c, Append(c1, Call("open", c.res)))
        Named(fp) ==
            IF len_parts(fp) # 1 \/ fp.anchor
            THEN [fs |-> f, exc |-> "", result |-> Msg("Illegal filename", <<>>),
                  released |-> FALSE, calls |-> <<>>, tried |-> 1]
            ELSE Checked(_local_path_check35(f, path \o fp.parts, root, FALSE),
                         <<Call("resolve", path \o fp.parts)>>)
    IN  Named(PathOf(filename))

\* Server._post_mkdir
_post_mkdir(f, body, path, root) ==
    LET H(f2, res, cl) == [fs |-> f2, exc |-> "", result |-> res, released |-> TRUE,
                           calls |-> cl, tried |-> 0]
        Made(m, parts, c2) ==
            IF m.err # "" THEN H(f, Msg("Create DIR Failed", parts), c2)
            ELSE H(m.fs, Msg("DIR Created.", parts), c2)
        Checked(c, parts, c1) ==
            IF c.exc # "" THEN H(f, Msg("Create DIR Failed", parts), c1)
            ELSE Made(mkdir(f, c.res), parts, Append(c1, Call("mkdir", c.res)))
        Named(folder_name) ==
            IF len_parts(folder_name) # 1 \/ folder_name.anchor
            THEN H(f, Msg("Illegal input", <<>>), <<>>)
            ELSE Checked(_local_path_check(f, path \o folder_name.parts, root, FALSE),
                         folder_name.parts,
                         <<Call("resolve", path \o folder_name.parts)>>)
    IN  Named(PathOf(body[1].value))

\* Server._post_delete
_post_delete(f, body, path, root) ==
    LET H(f2, res, cl) == [fs |-> f2, exc |-> "", result |-> res, released |-> TRUE,
                           calls |-> cl, tried |-> 0]
        Done(u, parts, c2) ==
            IF u.err # "" THEN H(u.fs, Msg("Deletion Failed", parts), c2)
            ELSE H(u.fs, Msg("Deleted", parts), c2)
        Kind(newp, parts, c1, link, file, dir) ==
            IF link \/ file
            THEN Done(unlink(f, newp), parts, Append(c1, Call("unlink", newp)))
            ELSE IF dir
            THEN Done(rmtree(f, newp), parts, Append(c1, Call("rmtree", newp)))
            ELSE H(f, Msg("Deleted", parts), c1)
        Checked(c, parts, c1) ==
            IF c.exc # "" THEN H(f, Msg("Deletion Failed", parts), c1)
            ELSE Kind(c.res, parts, c1, is_symlink(f, c.res), is_file(f, c.res),
                      is_dir(f, c.res))
        Named(to_del) ==
            IF len_parts(to_del) # 1 \/ to_del.anchor
            THEN H(f, Msg("Illegal input.", <<>>), <<>>)
            ELSE Checked(_local_path_check(f, path \o to_del.parts, root, TRUE),
                         to_del.parts, <<Call("resolve", path \o to_del.parts)>>)
    IN  Named(PathOf(body[1].value))

\* Server._post_rename
_post_rename(f, body, path, root) ==
    LET H(f2, res, cl) == [fs |-> f2, exc |-> "", result |-> res, released |-> TRUE,
                           calls |-> cl, tried |-> 0]
        Renamed(rn, fr, to, c3) ==
            IF rn.err # "" THEN H(rn.fs, Msg("Rename Failed", fr.parts), c3)
            ELSE H(rn.fs, Msg("Renamed", to.parts), c3)
        Checked(cfr, cto, fr, to, c1, c2) ==
            IF cfr.exc # "" THEN H(f, Msg("Rename Failed", fr.parts), c1)
            ELSE IF cto.exc # "" THEN H(f, Msg("Rename Failed", fr.parts), c2)
            ELSE IF exists(f, cto.res) THEN H(f, Msg("Target exists.", <<>>), c2)
            ELSE Renamed(rename(f, cfr.res, cto.res), fr, to,
                         Append(c2, Call("rename", cfr.res)))
        Named(fr, to) ==
            IF len_parts(fr) # 1 \/ len_parts(to) # 1 \/ fr.anchor \/ to.anchor
            THEN H(f, Msg("Illegal input.", <<>>), <<>>)
            ELSE Checked(_local_path_check(f, path \o fr.parts, root, TRUE),
                         _local_path_check(f, path \o to.parts, root, FALSE),
                         fr, to,
                         <<Call("resolve", path \o fr.parts)>>,
                         <<Call("resolve", path \o fr.parts),
                           Call("resolve", path \o to.parts)>>)
    IN  IF Len(body) < 2 \/ body[2].name # "4"
        THEN H(f, Msg("POST data error.", <<>>), <<>>)
        ELSE Named(PathOf(body[1].value), PathOf(body[2].value))

\* Server._post_copy_move without the test of lines 365-366.
PostCopyMoveNoReadOnlyTest(f, reqpath, body, path, root) ==
    LET method == body[1].value
        src == body[2].value
        H(f2, res, cl) == [fs |-> f2, exc |-> "", result |-> res, released |-> TRUE,
                           calls |-> cl, tried |-> 0]
        Done(done, name, c3) ==
            IF done.err # "" THEN H(done.fs, Msg("Paste failed", src), c3)
            ELSE H(done.fs, Msg("Pasted", name), c3)
        Target(ct, p, name, c2, pdir) ==
            IF ct.exc # "" THEN H(f, Msg("Paste failed", src), c2)
            ELSE IF exists(f, ct.res) THEN H(f, Msg("Target exists", <<>>), c2)
            ELSE IF method = <<"mv">>
            THEN Done(move(f, p, ct.res), name,
                      Append(c2, CallFrom("move", p, ct.res, name)))
            ELSE IF pdir
            THEN Done(_func_cpt(f, p, ct.res), name,
                      Append(c2, CallFrom("copytree", p, ct.res, name)))
            ELSE Done(_func_cp2(f, p, ct.res), name,
                      Append(c2, CallFrom("copy2", p, ct.res, name)))
        Source(p, name, c1) ==
            Target(_local_path_check(f, path \o name, root, FALSE), p, name,
                   Append(c1, CallR("resolve", path \o name, "dst")), is_dir(f, p))
        Inner(cp, c1) ==
            IF cp.exc # "" THEN H(f, Msg("Paste failed", src), c1)
            ELSE IF ~(is_dir(f, cp.res) \/ is_file(f, cp.res))
            THEN H(f, Msg("Paste failed", src), c1)
            ELSE Source(cp.res, IF cp.res = <<>> THEN <<>> ELSE <<PName(cp.res)>>, c1)
        Routed(wpres) ==
            IF wpres.exc # "" THEN H(f, Msg("Paste failed", src), <<>>)
            ELSE IF wpres.app THEN H(f, Msg("Invalid source", <<>>), <<>>)
            ELSE IF wpres.rest # <<>>
            THEN Inner(_local_path_check(f, wpres.root \o wpres.rest, wpres.root, TRUE),
                       <<CallR("resolve", wpres.root \o wpres.rest, "src")>>)
            ELSE IF wpres.home THEN H(f, Msg("Paste failed", src), <<>>)
            ELSE IF ~(is_dir(f, wpres.root) \/ is_file(f, wpres.root))
            THEN H(f, Msg("Paste failed", src), <<>>)
            ELSE IF method = <<"mv">> THEN H(f, Msg("Cannot move shared entry.", <<>>), <<>>)
            ELSE Source(wpres.root, <<wpres.share_name>>, <<>>)
    IN  IF method # <<"cp">> /\ method # <<"mv">>
        THEN H(f, Msg("POST data error.", <<>>), <<>>)
        ELSE IF Len(body) < 2
        THEN [fs |-> f, exc |-> "NameError", result |-> Msg("", <<>>),
              released |-> TRUE, calls |-> <<>>, tried |-> 0]
        ELSE IF body[2].name # "6" THEN H(f, Msg("POST data error.", <<>>), <<>>)
        ELSE Routed(_web_path(Collapse(urljoin(reqpath, src)), ""))

\* Server._post_copy_move; reqpath is request.path.
_post_copy_move(f, reqpath, body, path, root) ==
    LET method == body[1].value
        src == body[2].value
        H(f2, res, cl) == [fs |-> f2, exc |-> "", result |-> res, released |-> TRUE,
                           calls |-> cl, tried |-> 0]
        Done(done, name, c3) ==
            IF done.err # "" THEN H(done.fs, Msg("Paste failed", src), c3)
            ELSE H(done.fs, Msg("Pasted", name), c3)
        Target(ct, p, name, c2, pdir) ==
            IF ct.exc # "" THEN H(f, Msg("Paste failed", src), c2)
            ELSE IF exists(f, ct.res) THEN H(f, Msg("Target exists", <<>>), c2)
            ELSE IF method = <<"mv">>
            THEN Done(move(f, p, ct.res), name,
                      Append(c2, CallFrom("move", p, ct.res, name)))
            ELSE IF pdir
            THEN Done(_func_cpt(f, p, ct.res), name,
                      Append(c2, CallFrom("copytree", p, ct.res, name)))
            ELSE Done(_func_cp2(f, p, ct.res), name,
                      Append(c2, CallFrom("copy2", p, ct.res, name)))
        Source(p, name, c1) ==
            Target(_local_path_check(f, path \o name, root, FALSE), p, name,
                   Append(c1, CallR("resolve", path \o name, "dst")), is_dir(f, p))
        Inner(cp, c1) ==
            IF cp.exc # "" THEN H(f, Msg("Paste failed", src), c1)
            ELSE IF ~(is_dir(f, cp.res) \/ is_file(f, cp.res))
            THEN H(f, Msg("Paste failed", src), c1)
            ELSE Source(cp.res, IF cp.res = <<>> THEN <<>> ELSE <<PName(cp.res)>>, c1)
        Routed(wpres) ==
            IF wpres.exc # "" THEN H(f, Msg("Paste failed", src), <<>>)
            ELSE IF wpres.app THEN H(f, Msg("Invalid source", <<>>), <<>>)
            ELSE IF wpres.readonly /\ method = <<"mv">>
            THEN H(f, Msg("Target read-only. Move not allowed.", <<>>), <<>>)
            ELSE IF wpres.rest # <<>>
            THEN Inner(_local_path_check(f, wpres.root \o wpres.rest, wpres.root, TRUE),
                       <<CallR("resolve", wpres.root \o wpres.rest, "src")>>)
            ELSE IF wpres.home THEN H(f, Msg("Paste failed", src), <<>>)
            ELSE IF ~(is_dir(f, wpres.root) \/ is_file(f, wpres.root))
            THEN H(f, Msg("Paste failed", src), <<>>)
            ELSE IF method = <<"mv">> THEN H(f, Msg("Cannot move shared entry.", <<>>), <<>>)
            ELSE Source(wpres.root, <<wpres.share_name>>, <<>>)
    IN  IF method # <<"cp">> /\ method # <<"mv">>
        THEN H(f, Msg("POST data error.", <<>>), <<>>)
        ELSE IF Len(body) < 2
        THEN [fs |-> f, exc |-> "NameError", result |-> Msg("", <<>>),
              released |-> TRUE, calls |-> <<>>, tried |-> 0]
        ELSE IF body[2].name # "6" THEN H(f, Msg("POST data error.", <<>>), <<>>)
        ELSE Routed(_web_path(Collapse(urljoin(reqpath, src)), ""))

\* A directory copy whose destination lies deeper than directly in its own
\* source never ends in the code (each level lists the copy in progress);
\* such requests are left out of the model.
CopyDiverges(f, reqpath, body, path, root) ==
    LET Deep(ct, p) == ct.exc = "" /\ IsPrefix(p, ct.res) /\ Parent(ct.res) # p
        Source(p, name) ==
            is_dir(f, p) /\ Deep(_local_path_check(f, path \o name, root, FALSE), p)
        Inner(cp) ==
            /\ cp.exc = ""
            /\ Source(cp.res, IF cp.res = <<>> THEN <<>> ELSE <<PName(cp.res)>>)
        Routed(wpres) ==
            /\ wpres.exc = "" /\ ~wpres.app /\ ~wpres.home
            /\ IF wpres.rest = <<>> THEN Source(wpres.root, <<wpres.share_name>>)
               ELSE Inner(_local_path_check(f, wpres.root \o wpres.rest, wpres.root, TRUE))
    IN  /\ Len(body) >= 2 /\ body[1].value = <<"cp">> /\ body[2].name = "6"
        /\ Routed(_web_path(Collapse(urljoin(reqpath, body[2].value)), ""))

NoHandler ==
    [fs |-> <<>>, exc |-> "", result |-> Msg("", <<>>), released |-> TRUE,
     calls |-> <<>>, tried |-> 0]

\* Server._post_handler; ran names the mutation handler it called.
_post_handler(f, rq, path, root) ==
    LET body == rq.body
        first == body[1].name
        Ran(h, n) == h @@ [ran |-> n]
        Raise(e) == [NoHandler EXCEPT !.fs = f, !.exc = e] @@ [ran |-> ""]
    IN  IF ~rq.multipart \/ ~is_dir(f, path) THEN Raise("HTTPBadRequest")
        ELSE IF body = <<>> THEN Raise("HTTPBadRequest")
        ELSE IF first = "0" THEN Ran(_post_upload(f, body, path, root), "upload")
        ELSE IF first = "1" THEN Ran(_post_mkdir(f, body, path, root), "mkdir")
        ELSE IF first = "2" THEN Ran(_post_delete(f, body, path, root), "delete")
        ELSE IF first = "3" THEN Ran(_post_rename(f, body, path, root), "rename")
        ELSE IF first = "5"
        THEN Ran(_post_copy_move(f, rq.path, body, path, root), "copy_move")
        ELSE IF first = "6"
        THEN [NoHandler EXCEPT !.fs = f, !.result = Msg("Select: Copy or Move.", <<>>),
                               !.released = FALSE] @@ [ran |-> ""]
        ELSE Raise("HTTPBadRequest")

\* ------------------------------------------------------- the request handler

\* A URL: scheme, host, port, path, and whether it has a query string.
NoUrl == [scheme |-> "", host |-> "", port |-> "", path |-> <<>>, query |-> FALSE]

NoResp ==
    [status |-> 0, kind |-> "", loc |-> <<>>, url |-> NoUrl, allow |-> {},
     result |-> Msg("", <<>>), ran |-> "", released |-> TRUE, calls |-> <<>>,
     tried |-> 0]

\* The status aiohttp answers with for an exception that leaves the handler.
StatusOf(exc) ==
    CASE exc = "HTTPMovedPermanently" -> 301
      [] exc = "HTTPPermanentRedirect" -> 308
      [] exc = "HTTPBadRequest" -> 400
      [] exc = "HTTPForbidden" -> 403
      [] exc = "HTTPNotFound" -> 404
      [] exc = "HTTPMethodNotAllowed" -> 405
      [] OTHER -> 500

Raised(exc) == [NoResp EXCEPT !.status = StatusOf(exc), !.kind = "error"]

EndsWithSep(s) == s # <<>> /\ s[Len(s)] = SEP

\* The entries of directory p of f.
iterdir(f, p) == {q \in DOMAIN f : Len(q) = Len(p) + 1 /\ IsPrefix(p, q)}

\* The body Server._get_dir collects for the page of directory path of share
\* rname: the names of the links, of the directories, and the files with
\* their sizes (a file's content stands for its size).
body(f, rname, path) ==
    IF rname \notin ld THEN [err |-> "", links |-> {}, dirs |-> {}, files |-> {}]
    ELSE IF ~is_dir(f, path)
    THEN [err |-> "FileNotFoundError", links |-> {}, dirs |-> {}, files |-> {}]
    ELSE [err |-> "",
          links |-> {PName(q) : q \in {x \in iterdir(f, path) : f[x].kind = "link"}},
          dirs |-> {PName(q) : q \in {x \in iterdir(f, path) : f[x].kind = "dir"}},
          files |-> {<<PName(q), f[q].data>> :
                        q \in {x \in iterdir(f, path) : f[x].kind = "file"}}]

\* Server._get_dir: the redirect to the path with a trailing separator, or
\* the page.
_get_dir(rq, h) ==
    IF ~EndsWithSep(rq.path)
    THEN [h EXCEPT !.status = 301, !.kind = "redirect", !.loc = Append(rq.path, SEP)]
    ELSE [h EXCEPT !.status = 200, !.kind = "dir"]

\* Server._get_file
_get_file(rq) ==
    IF EndsWithSep(rq.path)
    THEN [NoResp EXCEPT !.status = 301, !.kind = "redirect",
                        !.loc = SubSeq(rq.path, 1, Len(rq.path) - 1)]
    ELSE [NoResp EXCEPT !.status = 200, !.kind = "file"]

\* Server._https_redirect redirecting GET requests only.
HttpsRedirectGetOnly(rq) == https # <<>> /\ ~rq.secure /\ rq.method = "GET"

\* Server._https_redirect: TRUE when the request is answered by the redirect.
_https_redirect(rq) == https # <<>> /\ ~rq.secure

\* request.url: the client asked host c on the port the server listens on.
request_url(rq) ==
    [scheme |-> IF rq.secure THEN "https" ELSE "http", host |-> "c", port |-> "8080",
     path |-> rq.path, query |-> rq.query]

\* new_url of Server._https_redirect: with_host, with_scheme, and with_port
\* when the port is not the configured one.
new_url(rq) ==
    LET Ported(u) == IF u.port # https[2] THEN [u EXCEPT !.port = https[2]] ELSE u
    IN  Ported([request_url(rq) EXCEPT !.host = https[1], !.scheme = "https"])

\* Server._request_handler with the test of lines 520-521 left out.
QueryStringIgnored(rq) == FALSE

\* request.query_string as line 520 tests it: TRUE for a non-empty string.
query_string(rq) == rq.query

\* Server._request_handler: [fs, resp].  platform.system() is not Windows,
\* so _windows_check does nothing.
_request_handler(f, rq) ==
    LET Same(r) == [fs |-> f, resp |-> r]
        Posted(h) ==
            LET hr == [NoResp EXCEPT !.result = h.result, !.ran = h.ran,
                                     !.released = h.released, !.calls = h.calls,
                                     !.tried = h.tried]
            IN  IF h.exc = "CancelledError"
                THEN [fs |-> h.fs, resp |-> [hr EXCEPT !.kind = "cancelled"]]
                ELSE IF h.exc # ""
                THEN [fs |-> h.fs,
                      resp |-> [hr EXCEPT !.kind = "error",
                                          !.status = StatusOf("HTTPBadRequest")]]
                ELSE [fs |-> h.fs, resp |-> _get_dir(rq, hr)]
        Checked(c, root) ==
            IF c.exc # "" THEN Same(Raised(c.exc))
            ELSE IF is_dir(f, c.res)
            THEN IF rq.method = "POST" THEN Posted(_post_handler(f, rq, c.res, root))
                 ELSE Same(_get_dir(rq, NoResp))
            ELSE IF is_file(f, c.res)
            THEN IF rq.method # "GET" THEN Same(Raised("NameError"))
                 ELSE Same(_get_file(rq))
            ELSE Same(Raised("HTTPInternalServerError"))
        Routed(wpres) ==
            IF wpres.exc # ""
            THEN Same([Raised(wpres.exc) EXCEPT !.loc = wpres.loc, !.allow = wpres.allow])
            ELSE IF wpres.app THEN Same([NoResp EXCEPT !.status = 200, !.kind = "app"])
            ELSE IF wpres.home THEN Same([NoResp EXCEPT !.status = 200, !.kind = "home"])
            ELSE Checked(_local_path_check(f, wpres.root \o wpres.rest, wpres.root, TRUE),
                         wpres.root)
    IN  IF _https_redirect(rq)
        THEN Same([NoResp EXCEPT !.status = 308, !.kind = "https", !.loc = rq.path,
                                 !.url = new_url(rq)])
        ELSE IF query_string(rq) THEN Same(Raised("HTTPBadRequest"))
        ELSE IF Collapse(rq.path) # rq.path
        THEN Same([NoResp EXCEPT !.status = 301, !.kind = "redirect",
                                 !.loc = Collapse(rq.path)])
        ELSE Routed(_web_path(rq.path, rq.method))

\* Server._request_handler of SimpleHTTPFileServer-py3.5.py for GET
\* requests and for POST requests whose first field is a file (name '0').
_request_handler35(f, rq) ==
    LET Same(r) == [fs |-> f, resp |-> r]
        Shown(c, hr) ==
            IF is_dir(f, c.res) THEN _get_dir(rq, hr)
            ELSE IF is_file(f, c.res) THEN _get_file(rq)
            ELSE Raised("HTTPInternalServerError")
        Posted(h, c) ==
            LET hr == [NoResp EXCEPT !.result = h.result, !.ran = "upload",
                                     !.released = h.released, !.calls = h.calls,
                                     !.tried = h.tried]
            IN  IF h.exc # ""
                THEN [fs |-> h.fs,
                      resp |-> [hr EXCEPT !.kind = "error",
                                          !.status = StatusOf("HTTPBadRequest")]]
                ELSE [fs |-> h.fs, resp |-> Shown(c, hr)]
        Checked(c, root) ==
            IF c.exc # "" THEN Same(Raised(c.exc))
            ELSE IF rq.method # "POST" THEN Same(Shown(c, NoResp))
            ELSE IF ~rq.multipart \/ ~is_dir(f, c.res) \/ rq.body = <<>>
            THEN Same(Raised("HTTPBadRequest"))
            ELSE Posted(_post_upload35(f, rq.body, c.res, root), c)
        Routed(wpres) ==
            IF wpres.exc # ""
            THEN Same([Raised(wpres.exc) EXCEPT !.allow = wpres.allow])
            ELSE IF wpres.home THEN Same([NoResp EXCEPT !.status = 200, !.kind = "home"])
            ELSE Checked(_local_path_check35(f, wpres.root \o wpres.rest, wpres.root,
                                             TRUE),
                         wpres.root)
    IN  IF rq.query THEN Same(Raised("HTTPBadRequest"))
        ELSE IF Collapse(rq.path) # rq.path
        THEN Same([NoResp EXCEPT !.status = 301, !.kind = "redirect",
                                 !.loc = Collapse(rq.path)])
        ELSE Routed(_web_path35(rq.path, rq.method))

\* ------------------------------------------------------------ start and stop
\* Each returns [lpsvr, listening, exc]: self._lpsvr, the endpoints the
\* server listens on, and the exception that escapes ("" for none).

\* The listen endpoints of the server, self._listen, by port.
Listen == [i \in 1..MaxListen |-> i]

RECURSIVE StartFrom(_, _, _, _)
\* The for loop of Server.__aenter__ from endpoint i on: svr.start() fails on
\* an endpoint another process holds, and the except clause turns that into
\* ValueError; what was appended before stays.
StartFrom(i, l, on, busy) ==
    IF i > Len(Listen) THEN [lpsvr |-> l, listening |-> on, exc |-> ""]
    ELSE IF Listen[i] \in busy THEN [lpsvr |-> l, listening |-> on, exc |-> "ValueError"]
    ELSE StartFrom(i + 1, Append(l, Listen[i]), on \cup {Listen[i]}, busy)

\* Server.__aenter__
__aenter__(l, on, busy) ==
    IF Len(l) = 0 THEN StartFrom(1, l, on, busy)
    ELSE [lpsvr |-> l, listening |-> on, exc |-> ""]

\* Server.__aexit__: every recorded listener is stopped, the list cleared.
__aexit__(l, on) ==
    IF Len(l) > 0
    THEN [lpsvr |-> <<>>, listening |-> on \ {l[i] : i \in 1..Len(l)}, exc |-> ""]
    ELSE [lpsvr |-> l, listening |-> on, exc |-> ""]

\* Server.run when the start fails: the finally clause runs __aexit__ and
\* the exception goes on; when the start succeeds the loop runs until it is
\* interrupted, which is a later __aexit__.
run(l, on, busy) ==
    LET Finally(s, x) == [lpsvr |-> x.lpsvr, listening |-> x.listening, exc |-> s.exc]
        Entered(s) ==
            IF s.exc # "" THEN Finally(s, __aexit__(s.lpsvr, s.listening)) ELSE s
    IN  Entered(__aenter__(l, on, busy))

\* ------------------------------------------------------------ the executor

\* Server._post_delete calling shutil.rmtree itself, not through the
\* executor.
ExecutorCopyOnly == {"copytree", "copy2", "move"}

\* The filesystem calls the handlers hand to self._loop.run_in_executor
\* (lines 317, 386, 388, 391 and 393); every other call is made by the
\* handler itself, on the thread of the event loop.
Executor == {"rmtree", "copytree", "copy2", "move"}

\* Where a call of a handler runs: on a worker of the default executor, the
\* handler suspended at the await, or on the event loop.
run_on(c) == IF c.op \in Executor THEN "pool" ELSE "loop"

\* --------------------------------------------------------- the constructor

\* Server.__init__(prefix=p), the other arguments at their defaults: the
\* exception that leaves it, "" when the object is made.  prefix[0] of the
\* empty string raises IndexError, which the except clause for
\* AssertionError lets through.
__init__(p) ==
    IF p = <<>> THEN "IndexError"
    ELSE IF ~(p[1] = SEP /\ p[Len(p)] = SEP) THEN "ValueError"
    ELSE ""

\* ------------------------------------------------------------ the registry
\* add_share, add_subapp and remove return the four tables they leave and
\* the exception that escapes ("" for none).

Tables(d, r, h, l, e) == [fd |-> d, ro |-> r, hd |-> h, ld |-> l, exc |-> e]

\* flag-driven add / discard of one name in one of the sets.
SetFlag(set, k, on) == IF on THEN set \cup {k} ELSE set \ {k}

\* Server.add_share with the three else branches (the discards) left out.
AddShareNeverDiscards(f, name, path, hidden, readonly, listdir) ==
    LET Resolved(rp, k) ==
            IF rp.err # "" THEN Tables(fd, ro, hd, ld, "FileNotFoundError")
            ELSE Tables([q \in (DOMAIN fd) \cup {k} |->
                            IF q = k THEN [app |-> FALSE, path |-> rp.path] ELSE fd[q]],
                        IF readonly THEN ro \cup {k} ELSE ro,
                        IF hidden THEN hd \cup {k} ELSE hd,
                        IF listdir THEN ld \cup {k} ELSE ld, "")
        Named(n) ==
            IF len_parts(n) # 1 \/ PName(n.parts) = ".." \/ n.anchor
            THEN Tables(fd, ro, hd, ld, "AssertionError")
            ELSE Resolved(resolve(f, path, TRUE), name[1])
    IN  Named(PathOf(name))

\* Server.add_share(name, path, hidden=, readonly=, listdir=); name is the
\* string as given, a one-segment name is the key name[1].
add_share(f, name, path, hidden, readonly, listdir) ==
    LET Resolved(rp, k) ==
            IF rp.err # "" THEN Tables(fd, ro, hd, ld, "FileNotFoundError")
            ELSE Tables([q \in (DOMAIN fd) \cup {k} |->
                            IF q = k THEN [app |-> FALSE, path |-> rp.path] ELSE fd[q]],
                        SetFlag(ro, k, readonly), SetFlag(hd, k, hidden),
                        SetFlag(ld, k, listdir), "")
        Named(n) ==
            IF len_parts(n) # 1 \/ PName(n.parts) = ".." \/ n.anchor
            THEN Tables(fd, ro, hd, ld, "AssertionError")
            ELSE Resolved(resolve(f, path, TRUE), name[1])
    IN  Named(PathOf(name))

\* Server.add_subapp(name, func, hidden=): _ro and _ld are not touched.
add_subapp(k, hidden) ==
    Tables([q \in (DOMAIN fd) \cup {k} |->
               IF q = k THEN [app |-> TRUE, path |-> <<>>] ELSE fd[q]],
           ro, SetFlag(hd, k, hidden), ld, "")

\* Server.remove(name): _ld is not touched.
remove(k) ==
    IF k \in DOMAIN fd
    THEN Tables([q \in (DOMAIN fd) \ {k} |-> fd[q]], ro \ {k}, hd \ {k}, ld, "")
    ELSE Tables(fd, ro, hd, ld, "ValueError")

\* Server._get_mainpage: the names the home page links to.
_get_mainpage == {k \in DOMAIN fd : k \notin hd}

\* ------------------------------------------------------------------- state

\* The directory tree the server starts on: share w (writable) at /w, share
\* r (read-only) at /r, share v (read-only) at /w/d, inside the root of w,
\* and /o outside every share.
BaseFS ==
    LET P == {<<>>, <<"w">>, <<"w", "a">>, <<"w", "d">>, <<"w", "d", "l">>,
              <<"r">>, <<"r", "b">>, <<"o">>, <<"o", "a">>}
    IN  [p \in P |->
            CASE p = <<"w", "a">> -> FileNode(1)
              [] p = <<"w", "d", "l">> -> FileNode(2)
              [] p = <<"r", "b">> -> FileNode(3)
              [] p = <<"o", "a">> -> FileNode(4)
              [] OTHER -> DirNode]

\* Where the link /w/l points in the initial tree: a file and a directory
\* of the share, a missing name of the share, and a missing name, a file
\* and a directory outside it, the link itself.
LinkTargets ==
    {<<"w", "a">>, <<"w", "d">>, <<"w", "n">>, <<"o", "n">>, <<"o", "a">>, <<"o">>,
     <<"w", "l">>}

InitFS == {BaseFS} \cup {Put(BaseFS, <<"w", "l">>, LinkNode(t)) : t \in LinkTargets}

Share(p) == [app |-> FALSE, path |-> p]

SubApp == [app |-> TRUE, path |-> <<>>]

NoReq ==
    [method |-> "", path |-> <<>>, query |-> FALSE, secure |-> FALSE,
     multipart |-> FALSE, body |-> <<>>]

NoPrev == [req |-> NoReq, resp |-> NoResp, pre |-> <<>>]

NoChk == [ver |-> "", root |-> <<>>, rel |-> <<>>, strict |-> FALSE,
          exc |-> "", res |-> <<>>]

\* What the latest registration under a name asked for: a share of the path
\* as given with its three flags, or a sub-app with its one.
Registered(p, hidden, readonly, listdir) ==
    [app |-> FALSE, path |-> p, hidden |-> hidden, readonly |-> readonly,
     listdir |-> listdir]

RegisteredApp(hidden) ==
    [app |-> TRUE, path |-> <<>>, hidden |-> hidden, readonly |-> FALSE,
     listdir |-> FALSE]

\* The last direct call of the programming interface and how it ended; n
\* counts the calls.
NoCall == [op |-> "", arg |-> <<>>, exc |-> "", n |-> 0]

\* The sockets of the machine: the endpoints this server listens on, and
\* those another process holds.
NoNet == [listening |-> {}, busy |-> {}]

\* No slow filesystem operation is in progress.
NoJob == [on |-> "", rq |-> NoReq, out |-> [fs |-> <<>>, resp |-> NoResp], at |-> 0]

\* The server after Server(...), add_share("w", "/w"),
\* add_share("r", "/r", readonly=True), add_share("v", "/w/d", readonly=True)
\* and add_subapp("s", func); with and without an HTTPS redirect target.
Init ==
    /\ fs \in InitFS
    /\ fd = [n \in {"w", "r", "v", "s"} |->
                CASE n = "w" -> Share(<<"w">>)
                  [] n = "r" -> Share(<<"r">>)
                  [] n = "v" -> Share(<<"w", "d">>)
                  [] OTHER -> SubApp]
    /\ ro = {"r", "v"}
    /\ hd = {}
    /\ ld = {"w", "r", "v"}
    /\ prefix = <<SEP>>
    /\ https \in {<<>>, <<"h", "443">>}
    /\ nreq = 0
    /\ pre = fs
    /\ req = NoReq
    /\ resp = NoResp
    /\ prev = NoPrev
    /\ chk = NoChk
    /\ reg = [n \in {"w", "r", "v", "s"} |->
                CASE n = "w" -> Registered(<<"w">>, FALSE, FALSE, TRUE)
                  [] n = "r" -> Registered(<<"r">>, FALSE, TRUE, TRUE)
                  [] n = "v" -> Registered(<<"w", "d">>, FALSE, TRUE, TRUE)
                  [] OTHER -> RegisteredApp(FALSE)]
    /\ call = NoCall
    /\ job = NoJob
    /\ lpsvr = <<>>
    /\ net = NoNet

\* ------------------------------------------------------------------ inputs

\* Relative inputs of the path check: names, "..", links, missing trailing
\* components, alone and combined.
RelInputs ==
    {<<>>, <<"a">>, <<"d">>, <<"l">>, <<"n">>, <<"..">>, <<"d", "..">>,
     <<"d", "..", "..", "o">>, <<"d", "..", "..", "o", "n">>, <<"l", "l">>,
     <<"l", "n">>, <<"l", "..">>, <<"l", "..", "a">>, <<"n", "x">>, <<"n", "..">>,
     <<"n", "..", "..", "o">>, <<"a", "..">>, <<"a", "x">>, <<"..", "w", "a">>,
     <<"..", "o", "a">>, <<"..", "o", "n">>}

FileField(fn, d, fl) ==
    [name |-> "0", filename |-> fn, value |-> <<>>, data |-> d, fail |-> fl,
     cancel |-> ""]

TextField(n, v) ==
    [name |-> n, filename |-> <<>>, value |-> v, data |-> 0, fail |-> FALSE,
     cancel |-> ""]

\* A file whose upload is cut by the client's disconnect.
CancelledField(fn, d, c) == [FileField(fn, d, FALSE) EXCEPT !.cancel = c]

Post(p, b) ==
    [method |-> "POST", path |-> p, query |-> FALSE, secure |-> FALSE,
     multipart |-> TRUE, body |-> b]

W == <<SEP, "w", SEP>>

WD == <<SEP, "w", SEP, "d", SEP>>

R == <<SEP, "r", SEP>>

\* Request paths of the front-end requests.
FrontPaths ==
    {<<SEP>>, W, <<SEP, "w">>, <<SEP, "w", SEP, "a">>, <<SEP, "w", SEP, "a", SEP>>,
     WD, R, <<SEP, "r", SEP, "b">>, <<SEP, "x", SEP>>, <<SEP, SEP, "w", SEP>>,
     <<SEP, "w", SEP, "d", SEP, "..", SEP>>, <<SEP, "w", SEP, "..", SEP, "o", SEP>>,
     <<SEP, "w", SEP, "l">>, <<SEP, "s", SEP>>, <<"w", SEP>>,
     <<SEP, "r", SEP, "x", SEP, "y">>, <<SEP, "v", SEP>>,
     <<SEP, "r", SEP, SEP, "b">>}

FrontRequests ==
    {[method |-> m, path |-> p, query |-> FALSE, secure |-> sec, multipart |-> TRUE,
      body |-> <<TextField("1", <<"n">>)>>] :
        m \in {"GET", "POST", "PUT"}, p \in FrontPaths, sec \in BOOLEAN}
    \cup {[method |-> m, path |-> p, query |-> TRUE, secure |-> sec,
           multipart |-> TRUE, body |-> <<TextField("1", <<"n">>)>>] :
            m \in {"GET", "POST"}, p \in {<<SEP>>, W, R}, sec \in BOOLEAN}

\* Names typed into the forms: one segment, "..", a trailing separator, two
\* segments, an anchored name.
Names == {<<"a">>, <<"d">>, <<"l">>, <<"n">>, <<"..">>}

BadNames == {<<"a", SEP>>, <<"d", SEP, "l">>, <<SEP, "a">>}

UploadNames == {<<"a">>, <<"d">>, <<"l">>, <<"n">>, <<"..">>, <<"d", SEP, "l">>}

LastFiles == {FileField(fn, 7, fl) : fn \in UploadNames, fl \in BOOLEAN}

FirstFiles ==
    {FileField(<<"n">>, 5, FALSE), FileField(<<"a">>, 5, FALSE),
     FileField(<<"l">>, 5, FALSE), FileField(<<"n">>, 5, TRUE)}

RECURSIVE Batches(_)
\* The upload bodies of n file fields.
Batches(n) ==
    IF n = 1 THEN {<<x>> : x \in LastFiles}
    ELSE {<<x>> \o b : x \in FirstFiles, b \in Batches(n - 1)}

UploadRequests ==
    {Post(W, b) : b \in UNION {Batches(n) : n \in 1..MaxBatch}}
    \cup {Post(WD, <<FileField(fn, 7, FALSE)>>) : fn \in {<<"n">>, <<"..">>}}

\* Uploads the client leaves in the middle of: a new name, an existing file,
\* a link, a directory (the open fails first), alone or after a file that
\* was uploaded whole.
CancelledUploads ==
    {Post(p, <<CancelledField(fn, 7, c)>>) :
        p \in {W, WD}, fn \in {<<"n">>, <<"a">>, <<"l">>, <<"d">>},
        c \in {"Exception", "BaseException"}}
    \cup {Post(W, <<FileField(<<"n">>, 5, FALSE), CancelledField(fn, 7, c)>>) :
            fn \in {<<"x">>, <<"n">>}, c \in {"Exception", "BaseException"}}

MkdirRequests ==
    {Post(p, <<TextField("1", v)>>) :
        p \in {W, WD}, v \in {<<"n">>, <<"a">>, <<"..">>, <<"d", SEP, "n">>}}

DeleteRequests ==
    {Post(p, <<TextField("2", v)>>) : p \in {W, WD}, v \in Names \cup BadNames}

RenameRequests ==
    {Post(W, <<TextField("3", a), TextField("4", b)>>) : a \in Names, b \in Names}
    \cup {Post(WD, <<TextField("3", a), TextField("4", b)>>) :
            a \in {<<"l">>, <<"..">>}, b \in {<<"n">>, <<"..">>}}
    \cup {Post(W, <<TextField("3", a), TextField("4", <<"n">>)>>) : a \in BadNames}
    \cup {Post(W, <<TextField("3", <<"a">>), TextField("4", b)>>) : b \in BadNames}
    \cup {Post(W, <<TextField("3", <<"a">>)>>)}

\* Source URLs typed into the paste form.
Sources ==
    {<<SEP, "r", SEP, "b">>, <<SEP, "r", SEP>>, <<SEP, "w", SEP, "a">>,
     <<SEP, "w", SEP, "d">>, <<SEP, "w", SEP, "d", SEP, "l">>, <<SEP, "w", SEP, "l">>,
     <<"l">>, <<"..", SEP, "a">>, <<SEP>>, <<SEP, "s", SEP>>, <<SEP, "x", SEP, "y">>,
     <<SEP, "r", SEP, "n">>, <<SEP, "v", SEP>>, <<SEP, "v", SEP, "l">>,
     <<SEP, "w", SEP>>}

CopyMoveRequests ==
    {Post(W, <<TextField("5", m), TextField("6", src)>>) :
        m \in {<<"cp">>, <<"mv">>}, src \in Sources}
    \cup {Post(WD, <<TextField("5", m), TextField("6", src)>>) :
            m \in {<<"cp">>, <<"mv">>},
            src \in {<<SEP, "r", SEP, "b">>, <<SEP, "w", SEP, "a">>,
                     <<SEP, "w", SEP, "d">>, <<"l">>, <<"..", SEP, "a">>,
                     <<SEP, "v", SEP>>, <<SEP, "w", SEP, "l">>}}
    \cup {Post(W, <<TextField("5", <<"ln">>), TextField("6", <<"l">>)>>),
          Post(W, <<TextField("5", <<"cp">>)>>),
          Post(W, <<TextField("5", <<"cp">>), TextField("1", <<"n">>)>>)}

OtherPosts ==
    {Post(W, <<>>), Post(W, <<TextField("6", <<"l">>)>>),
     Post(W, <<TextField("4", <<"n">>)>>),
     [Post(W, <<TextField("1", <<"n">>)>>) EXCEPT !.multipart = FALSE]}

\* The add_share calls: over a read-only share (v) and over a sub-app (s),
\* of a directory and of a link (to a directory, a file, nothing), with
\* every combination of flags; and calls with a name that is refused.
AddShareCalls ==
    {[name |-> n, path |-> p, hidden |-> h, readonly |-> r, listdir |-> l] :
        n \in {<<"v">>, <<"s">>}, p \in {<<"r">>, <<"w", "l">>},
        h \in BOOLEAN, r \in BOOLEAN, l \in BOOLEAN}
    \cup {[name |-> n, path |-> <<"r">>, hidden |-> FALSE, readonly |-> FALSE,
           listdir |-> TRUE] : n \in {<<"..">>, <<"x", SEP, "y">>}}

\* Values given as prefix: the default, one segment, two segments, repeated
\* separators, a missing separator at either end or both, the empty string.
PrefixInputs ==
    {<<SEP>>, <<SEP, "p", SEP>>, <<SEP, "p", SEP, "q", SEP>>, <<SEP, SEP>>,
     <<SEP, "p", SEP, SEP>>, <<SEP, SEP, "p", SEP>>, <<"p", SEP>>, <<SEP, "p">>,
     <<"p">>, <<>>}

\* Request paths of up to MaxPathLen tokens: a leading separator, then
\* separators and the segments w and a in any order, no two segments
\* without a separator between them.
RequestPaths ==
    {p \in UNION {{<<SEP>> \o t : t \in [1..n -> {SEP, "w", "a"}]} :
                     n \in 0..(MaxPathLen - 1)} :
        \A i \in 1..(Len(p) - 1) : p[i] = SEP \/ p[i + 1] = SEP}

\* The values of PrefixInputs the constructor accepts.
AcceptedPrefixes == {p \in PrefixInputs : __init__(p) = ""}

\* What a client asks for below a prefix: the prefix itself, a share with
\* and without the trailing separator, a file and a directory of it with
\* and without, a repeated separator, a sub-application, an unknown name.
BelowPrefix ==
    {<<>>, <<"w">>, <<"w", SEP>>, <<"w", SEP, "a">>, <<"w", SEP, "a", SEP>>,
     <<"w", SEP, "d">>, <<"w", SEP, "d", SEP>>, <<SEP, "w">>, <<"s">>, <<"x">>}

\* The paths of the first request of a client: below every accepted prefix,
\* and the prefix /p/ without its trailing separator.
FollowPaths ==
    {p \o t : p \in AcceptedPrefixes, t \in BelowPrefix} \cup {<<SEP, "p">>}

\* The response sends the client elsewhere: 301 (lines 233, 525, 436, 491)
\* or 308 (line 558).
IsRedirect(r) == r.status \in {301, 308}

\* Uploads of one file to a server running the Python 3.5 port, and reads.
Requests35 ==
    {Post(p, <<FileField(fn, 7, FALSE)>>) :
        p \in {W, WD, R, <<SEP, "w", SEP, "a">>, <<SEP, "w", SEP, "l", SEP>>},
        fn \in {<<"a">>, <<"l">>, <<"n">>, <<"d">>, <<"..">>, <<"d", SEP, "l">>}}
    \cup {[NoReq EXCEPT !.method = "GET", !.path = p] :
            p \in {<<SEP>>, W, <<SEP, "w">>, R, <<SEP, "w", SEP, "l">>,
                    <<SEP, SEP, "w", SEP>>}}

\* Uploads of one file that arrive while a copy or move waits for its
\* worker.
RaceUploads ==
    {Post(p, <<FileField(fn, 7, FALSE)>>) :
        p \in {W, WD}, fn \in {<<"a">>, <<"b">>, <<"d">>, <<"n">>}}

\* ----------------------------------------------------------------- actions

\* One request handled from its arrival to its response.
Handle(rq) ==
    /\ LET Answered(out) == fs' = out.fs /\ resp' = out.resp
       IN  Answered(_request_handler(fs, rq))
    /\ req' = rq
    /\ pre' = fs
    /\ prev' = IF resp.ran = "rename" /\ resp.result.msg = "Renamed"
               THEN [req |-> req, resp |-> resp, pre |-> pre]
               ELSE NoPrev
    /\ nreq' = nreq + 1
    /\ UNCHANGED <<fd, ro, hd, ld, prefix, https, chk, reg, call, job, lpsvr, net>>

Front ==
    \E rq \in FrontRequests :
        /\ nreq < MaxReq
        /\ Handle(rq)

Upload ==
    \E rq \in UploadRequests :
        /\ nreq < MaxReq
        /\ Handle(rq)

\* An upload request whose client disconnects while a file is received.
UploadCancelled ==
    \E rq \in CancelledUploads :
        /\ nreq < MaxReq
        /\ Handle(rq)

Mkdir ==
    \E rq \in MkdirRequests :
        /\ nreq < MaxReq
        /\ Handle(rq)

Delete ==
    \E rq \in DeleteRequests :
        /\ nreq < MaxReq
        /\ Handle(rq)

Rename ==
    \E rq \in RenameRequests :
        /\ nreq < MaxReq
        /\ Handle(rq)

CopyMove ==
    \E rq \in CopyMoveRequests :
        /\ nreq < MaxReq
        /\ LET Ends(c, root) ==
                   c.exc = "" => ~CopyDiverges(fs, rq.path, rq.body, c.res, root)
               Routed(wpres) ==
                   wpres.exc = ""
                   => Ends(_local_path_check(fs, wpres.root \o wpres.rest, wpres.root,
                                             TRUE), wpres.root)
           IN  Routed(_web_path(rq.path, rq.method))
        /\ Handle(rq)

OtherPost ==
    \E rq \in OtherPosts :
        /\ nreq < MaxReq
        /\ Handle(rq)

\* A direct call of the path check of src/SimpleHTTPFileServer.py on a
\* registered root and a relative input.
PathCheck ==
    \E n \in {"w", "r"}, rel \in RelInputs, strict \in BOOLEAN :
        LET Checked(c) ==
                chk' = [ver |-> "3.6", root |-> fd[n].path, rel |-> rel,
                        strict |-> strict, exc |-> c.exc, res |-> c.res]
        IN  /\ Checked(_local_path_check(fs, fd[n].path \o rel, fd[n].path, strict))
            /\ UNCHANGED <<fs, fd, ro, hd, ld, prefix, https, nreq, pre, req, resp, prev,
                           reg, call, job, lpsvr, net>>

\* A direct call of the path check of src/SimpleHTTPFileServer-py3.5.py.
PathCheck35 ==
    \E n \in {"w", "r"}, rel \in RelInputs, strict \in BOOLEAN :
        LET Checked(c) ==
                chk' = [ver |-> "3.5", root |-> fd[n].path, rel |-> rel,
                        strict |-> strict, exc |-> c.exc, res |-> c.res]
        IN  /\ Checked(_local_path_check35(fs, fd[n].path \o rel, fd[n].path, strict))
            /\ UNCHANGED <<fs, fd, ro, hd, ld, prefix, https, nreq, pre, req, resp, prev,
                           reg, call, job, lpsvr, net>>

\* A delete, copy or move request gets as far as its filesystem call: the
\* call starts, on a worker or on the event loop, and is in progress.  The
\* requests answered meanwhile are reads, so what the call will have done
\* when it ends is what it does to the filesystem as it is now.
DispatchOf(rq) ==
        /\ job = NoJob
        /\ LET Ends(c, root) ==
                   c.exc = "" => ~CopyDiverges(fs, rq.path, rq.body, c.res, root)
               Routed(wpres) ==
                   wpres.exc = ""
                   => Ends(_local_path_check(fs, wpres.root \o wpres.rest, wpres.root,
                                             TRUE), wpres.root)
           IN  rq.body[1].name = "5" => Routed(_web_path(rq.path, rq.method))
        /\ LET Started(out, n) ==
                   /\ n > 0
                   /\ out.resp.calls[n].op \in {"unlink", "rmtree", "copytree", "copy2", "move"}
                   /\ job' = [on |-> run_on(out.resp.calls[n]), rq |-> rq, out |-> out,
                              at |-> nreq]
               Run(out) == Started(out, Len(out.resp.calls))
           IN  Run(_request_handler(fs, rq))
        /\ nreq' = nreq + 1
        /\ UNCHANGED <<fs, fd, ro, hd, ld, prefix, https, pre, req, resp, prev, chk,
                       reg, call, lpsvr, net>>

Dispatch ==
    \E rq \in DeleteRequests \cup CopyMoveRequests :
        /\ nreq < MaxReq
        /\ DispatchOf(rq)

\* One request handled by the Python 3.5 port.
Handle35 ==
    \E rq \in Requests35 :
        /\ nreq < MaxReq
        /\ LET Answered(out) == fs' = out.fs /\ resp' = out.resp
           IN  Answered(_request_handler35(fs, rq))
        /\ req' = rq
        /\ pre' = fs
        /\ prev' = NoPrev
        /\ nreq' = nreq + 1
        /\ UNCHANGED <<fd, ro, hd, ld, prefix, https, chk, reg, call, job, lpsvr, net>>

\* A copy or move request gets as far as handing its call to the executor
\* (lines 386, 388, 391, 393): the destination was free at line 383.
PasteDispatch ==
    \E rq \in CopyMoveRequests :
        /\ nreq < MaxReq
        /\ DispatchOf(rq)

\* An upload is handled while the copy or move waits for its worker: the
\* handler is suspended at the await and the event loop is free.
UploadMeanwhile ==
    \E rq \in RaceUploads :
        /\ nreq < MaxReq
        /\ job # NoJob
        /\ job.on = "pool"
        /\ Handle(rq)

\* The worker makes the call, on the filesystem as it is by then, and the
\* request is answered (lines 394-400).  prev keeps the exchange before.
Execute ==
    /\ job # NoJob
    /\ LET c == job.out.resp.calls[Len(job.out.resp.calls)]
           src == job.rq.body[2].value
           Answered(done) ==
               /\ fs' = done.fs
               /\ resp' = [job.out.resp EXCEPT
                             !.result = IF done.err # "" THEN Msg("Paste failed", src)
                                        ELSE Msg("Pasted", c.name)]
       IN  Answered(CASE c.op = "move" -> move(fs, c.src, c.path)
                      [] c.op = "copytree" -> _func_cpt(fs, c.src, c.path)
                      [] OTHER -> _func_cp2(fs, c.src, c.path))
    /\ req' = job.rq
    /\ pre' = fs
    /\ prev' = [req |-> req, resp |-> resp, pre |-> pre]
    /\ job' = NoJob
    /\ UNCHANGED <<fd, ro, hd, ld, prefix, https, nreq, chk, reg, call, lpsvr, net>>

\* The call in progress ends and its request is answered.
Complete ==
    /\ job # NoJob
    /\ fs' = job.out.fs
    /\ resp' = job.out.resp
    /\ req' = job.rq
    /\ pre' = fs
    /\ prev' = NoPrev
    /\ job' = NoJob
    /\ UNCHANGED <<fd, ro, hd, ld, prefix, https, nreq, chk, reg, call, lpsvr, net>>

\* Another request is handled while the call is in progress: the event
\* loop has one thread, so this happens only when the call is not on it.
Meanwhile ==
    \E rq \in {x \in FrontRequests : x.method = "GET"} :
        /\ nreq < MaxReq
        /\ job # NoJob
        /\ job.on = "pool"
        /\ Handle(rq)

\* Server(prefix=p): a new server object, its tables empty, or the
\* exception and the state as it was.
Construct ==
    \E p \in PrefixInputs :
        /\ call.n < MaxCalls
        /\ call' = [op |-> "__init__", arg |-> p, exc |-> __init__(p), n |-> call.n + 1]
        /\ IF __init__(p) = ""
           THEN /\ prefix' = p
                /\ fd' = <<>> /\ reg' = <<>>
                /\ ro' = {} /\ hd' = {} /\ ld' = {}
                /\ lpsvr' = <<>>
           ELSE UNCHANGED <<prefix, fd, reg, ro, hd, ld, lpsvr>>
        /\ UNCHANGED <<fs, https, nreq, pre, req, resp, prev, chk, job, lpsvr, net>>

\* The first GET request of a client.
Start ==
    \E p \in FollowPaths, sec \in BOOLEAN :
        /\ nreq = 0
        /\ Handle([NoReq EXCEPT !.method = "GET", !.path = p, !.secure = sec])

\* The client follows the redirect it was answered with: the same path over
\* TLS after the HTTPS redirect, the path of the Location header after the
\* others.  prev keeps the exchange before.
Follow ==
    /\ 0 < nreq /\ nreq < MaxHops
    /\ IsRedirect(resp)
    /\ LET Answered(out) == fs' = out.fs /\ resp' = out.resp
           Asked(rq) == req' = rq /\ Answered(_request_handler(fs, rq))
       IN  Asked([req EXCEPT !.path = resp.loc,
                             !.secure = IF resp.status = 308 THEN TRUE ELSE @])
    /\ prev' = [req |-> req, resp |-> resp, pre |-> pre]
    /\ pre' = fs
    /\ nreq' = nreq + 1
    /\ UNCHANGED <<fd, ro, hd, ld, prefix, https, chk, reg, call, job, lpsvr, net>>

\* A GET request of any path.
Canonical ==
    \E p \in RequestPaths, sec \in BOOLEAN :
        /\ nreq < MaxReq
        /\ Handle([NoReq EXCEPT !.method = "GET", !.path = p, !.secure = sec])

\* What a call of the lifecycle leaves.
Lifecycle(op, s) ==
    /\ lpsvr' = s.lpsvr
    /\ net' = [net EXCEPT !.listening = s.listening]
    /\ call' = [op |-> op, arg |-> <<>>, exc |-> s.exc, n |-> call.n + 1]
    /\ UNCHANGED <<fs, fd, ro, hd, ld, prefix, https, nreq, pre, req, resp, prev, chk,
                   reg, job>>

\* await server.__aenter__()
Aenter ==
    /\ call.n < MaxStarts
    /\ Lifecycle("__aenter__", __aenter__(lpsvr, net.listening, net.busy))

\* await server.__aexit__()
Aexit ==
    /\ call.n < MaxStarts
    /\ Lifecycle("__aexit__", __aexit__(lpsvr, net.listening))

\* server.run() up to the point where the loop runs, or to its exception.
Run ==
    /\ call.n < MaxStarts
    /\ Lifecycle("run", run(lpsvr, net.listening, net.busy))

\* Another process takes an endpoint nobody listens on, or gives one back.
OtherProcess ==
    \E e \in {Listen[i] : i \in 1..Len(Listen)} :
        /\ e \notin net.listening
        /\ net' = [net EXCEPT !.busy = IF e \in @ THEN @ \ {e} ELSE @ \cup {e}]
        /\ UNCHANGED <<fs, fd, ro, hd, ld, prefix, https, nreq, pre, req, resp, prev, chk,
                       reg, call, job, lpsvr>>

\* server.add_share(...)
AddShare ==
    \E c \in AddShareCalls :
        /\ call.n < MaxCalls
        /\ LET Done(t) ==
                   /\ fd' = t.fd /\ ro' = t.ro /\ hd' = t.hd /\ ld' = t.ld
                   /\ call' = [op |-> "add_share", arg |-> c.name, exc |-> t.exc,
                               n |-> call.n + 1]
                   /\ reg' = IF t.exc # "" THEN reg
                             ELSE [q \in (DOMAIN reg) \cup {c.name[1]} |->
                                      IF q = c.name[1]
                                      THEN Registered(c.path, c.hidden, c.readonly,
                                                      c.listdir)
                                      ELSE reg[q]]
           IN  Done(add_share(fs, c.name, c.path, c.hidden, c.readonly, c.listdir))
        /\ UNCHANGED <<fs, prefix, https, nreq, pre, req, resp, prev, chk, job, lpsvr, net>>

\* server.add_subapp(name, func, hidden=...)
AddSubapp ==
    \E k \in {"v", "s"}, hidden \in BOOLEAN :
        /\ call.n < MaxCalls
        /\ LET Done(t) ==
                   /\ fd' = t.fd /\ ro' = t.ro /\ hd' = t.hd /\ ld' = t.ld
                   /\ call' = [op |-> "add_subapp", arg |-> <<k>>, exc |-> t.exc,
                               n |-> call.n + 1]
                   /\ reg' = [q \in (DOMAIN reg) \cup {k} |->
                                IF q = k THEN RegisteredApp(hidden) ELSE reg[q]]
           IN  Done(add_subapp(k, hidden))
        /\ UNCHANGED <<fs, prefix, https, nreq, pre, req, resp, prev, chk, job, lpsvr, net>>

\* server.remove(name)
Remove ==
    \E k \in {"v", "s", "q"} :
        /\ call.n < MaxCalls
        /\ LET Done(t) ==
                   /\ fd' = t.fd /\ ro' = t.ro /\ hd' = t.hd /\ ld' = t.ld
                   /\ call' = [op |-> "remove", arg |-> <<k>>, exc |-> t.exc,
                               n |-> call.n + 1]
                   /\ reg' = IF t.exc # "" THEN reg
                             ELSE [q \in (DOMAIN reg) \ {k} |-> reg[q]]
           IN  Done(remove(k))
        /\ UNCHANGED <<fs, prefix, https, nreq, pre, req, resp, prev, chk, job, lpsvr, net>>

Next == Front \/ Upload \/ Mkdir \/ Delete \/ Rename \/ CopyMove \/ OtherPost

Spec == Init /\ [][Next]_vars

\* The path check alone, on every initial tree.
NextResolve == PathCheck \/ PathCheck35

SpecResolve == Init /\ [][NextResolve]_vars

\* The requests that are answered before or by the router.
NextFront == Front

SpecFront == Init /\ [][NextFront]_vars

\* Rename requests alone.
NextRename == Rename

SpecRename == Init /\ [][NextRename]_vars

\* Copy and move requests alone.
NextCopyMove == CopyMove

SpecCopyMove == Init /\ [][NextCopyMove]_vars

\* Uploads, whole and cut by a disconnect.
NextCancel == Upload \/ UploadCancelled

SpecCancel == Init /\ [][NextCancel]_vars

\* Delete, copy and move requests with their filesystem call in progress,
\* and the reads that come in meanwhile.
NextPool == Dispatch \/ Complete \/ Meanwhile

SpecPool == Init /\ [][NextPool]_vars

\* The server of Init on the trees f with a prefix of p.
InitOn(f, p) ==
    /\ fs \in f
    /\ fd = [n \in {"w", "r", "v", "s"} |->
                CASE n = "w" -> Share(<<"w">>)
                  [] n = "r" -> Share(<<"r">>)
                  [] n = "v" -> Share(<<"w", "d">>)
                  [] OTHER -> SubApp]
    /\ ro = {"r", "v"}
    /\ hd = {}
    /\ ld = {"w", "r", "v"}
    /\ prefix \in p
    /\ https \in {<<>>, <<"h", "443">>}
    /\ nreq = 0
    /\ pre = fs
    /\ req = NoReq
    /\ resp = NoResp
    /\ prev = NoPrev
    /\ chk = NoChk
    /\ reg = <<>>
    /\ call = NoCall
    /\ job = NoJob
    /\ lpsvr = <<>>
    /\ net = NoNet

\* A server made with any prefix the constructor accepts, the shares of Init
\* added to it.
InitFollow == InitOn(InitFS, AcceptedPrefixes)

\* One client following redirects.
NextFollow == Start \/ Follow

SpecFollow == InitFollow /\ [][NextFollow]_vars

\* The trees in which the link /w/l of the writable share points into the
\* read-only share r: at its file, its root, a missing name of it.
ReadOnlyFS ==
    {Put(BaseFS, <<"w", "l">>, LinkNode(t)) :
        t \in {<<"r", "b">>, <<"r">>, <<"r", "n">>}}

InitReadOnly == InitOn(ReadOnlyFS, {<<SEP>>})

\* Every request that can change the filesystem, with links into the
\* read-only share.
NextReadOnly == Upload \/ Mkdir \/ Delete \/ Rename \/ CopyMove

SpecReadOnly == InitReadOnly /\ [][NextReadOnly]_vars

\* The same trees under the Python 3.5 port.
NextReadOnly35 == Handle35

SpecReadOnly35 == InitReadOnly /\ [][NextReadOnly35]_vars

\* Starts and stops of the server while other processes take and give back
\* its endpoints.
NextLifecycle == Aenter \/ Aexit \/ Run \/ OtherProcess

SpecLifecycle == Init /\ [][NextLifecycle]_vars

\* A copy or move with an upload between its existence check and its call.
NextRace == PasteDispatch \/ UploadMeanwhile \/ Execute

SpecRace == Init /\ [][NextRace]_vars

\* GET requests of every path.
NextCanonical == Canonical

SpecCanonical == Init /\ [][NextCanonical]_vars

\* Construction of servers.
NextConstruct == Construct

SpecConstruct == Init /\ [][NextConstruct]_vars

\* Registrations, re-registrations and removals before serving.
NextRegistry == AddShare \/ AddSubapp \/ Remove

SpecRegistry == Init /\ [][NextRegistry]_vars

\* -------------------------------------------------------------- properties

\* q is root or a descendant of root in the filesystem f: with its ".."
\* applied q lies under root, and the place the kernel reaches through q
\* (the node, or where a new file would be made) lies under root.
Descendant(f, root, q) ==
    /\ IsPrefix(root, ResolveDots(q, <<>>))
    /\ LET k == stat(f, q)
       IN  (k.err = "" \/ k.creat) => IsPrefix(root, k.path)

\* C1: whatever the path check returns is the root or a descendant of the
\* root in the filesystem, for both versions of the check, in both modes.
Containment == chk.ver # "" /\ chk.exc = "" => Descendant(fs, chk.root, chk.res)

\* C1 for the check of src/SimpleHTTPFileServer.py alone.
Containment36 ==
    chk.ver = "3.6" /\ chk.exc = "" => Descendant(fs, chk.root, chk.res)

\* The check of src/SimpleHTTPFileServer.py let a path through that goes
\* over a link and "..".
Containment36Witness ==
    /\ chk.ver = "3.6" /\ chk.exc = ""
    /\ \E i \in 1..Len(chk.rel) : chk.rel[i] = ".."
    /\ is_symlink(fs, chk.root \o <<chk.rel[1]>>)


\* ------------------------------------------------- the mutation handlers

\* The directory the last request addressed.
ReqDir ==
    LET wpres == _web_path(req.path, "") IN wpres.root \o wpres.rest

\* A name with a separator in it, or the name "..".
IllegalName(v) == (\E i \in 1..Len(v) : v[i] = SEP) \/ v = <<"..">>

\* A name of exactly one segment.
OneSegment(v) == Len(v) = 1 /\ ~IllegalName(v)

\* The entries of f at p and below, as they are.
Below(f, p) == [q \in SubTree(f, p) |-> f[q]]

\* C2: a name given to upload, mkdir, delete or rename that has a separator
\* in it or is ".." is rejected before any filesystem call is made for it.
SingleSegment ==
    /\ resp.ran \in {"mkdir", "delete"} /\ IllegalName(req.body[1].value)
       => resp.calls = <<>> /\ resp.result.msg \in {"Illegal input", "Illegal input."}
    /\ (/\ resp.ran = "rename" /\ Len(req.body) >= 2 /\ req.body[2].name = "4"
        /\ (IllegalName(req.body[1].value) \/ IllegalName(req.body[2].value)))
       => resp.calls = <<>> /\ resp.result.msg = "Illegal input."
    /\ resp.ran = "upload"
       => \A i \in 1..resp.tried :
            IllegalName(req.body[i].filename)
            => i = resp.tried /\ resp.result.msg = "Illegal filename"

\* The last request was an upload whose file number resp.tried failed.
UploadFailed ==
    /\ resp.ran = "upload" /\ resp.tried >= 1
    /\ \/ resp.result.msg = "Illegal filename"
       \/ /\ Len(resp.result.lines) = resp.tried
          /\ resp.result.lines[resp.tried].msg = "Failed"

\* What a read of p gives: the node the name leads to.
ReadAt(f, p) ==
    LET k == stat(f, p) IN IF k.err = "" THEN f[k.path] ELSE [kind |-> "none"]

\* C4: when file k of an upload fails, the files before it (under other
\* names) are on disk with their whole content and are reported successful,
\* and file k is not on disk.
UploadIsolation ==
    UploadFailed =>
        LET k == resp.tried
            At(i) == ReqDir \o PathOf(req.body[i].filename).parts
        IN  /\ \A i \in 1..(k - 1) :
                req.body[i].filename # req.body[k].filename
                => /\ ReadAt(fs, At(i)) = FileNode(req.body[i].data)
                   /\ i <= Len(resp.result.lines)
                   /\ resp.result.lines[i] = Msg("Successful", req.body[i].filename)
            /\ (At(k) \in DOMAIN fs => At(k) \in DOMAIN pre /\ fs[At(k)] = pre[At(k)])

\* C5: an upload creates new files only: an entry that was in the directory
\* under an uploaded name is after the request what it was before it.
UploadNewFileOnly ==
    resp.ran = "upload" =>
        \A i \in 1..resp.tried :
            LET p == ReqDir \o req.body[i].filename
            IN  OneSegment(req.body[i].filename) /\ p \in DOMAIN pre
                => p \in DOMAIN fs /\ Below(fs, p) = Below(pre, p)

\* C6: delete of a one-segment name that is in the directory removes that
\* entry, by unlink for a symlink or a file (a symlink itself, never its
\* target) and recursively for a directory, and nothing else.
DeleteRemovesEntry ==
    LET v == req.body[1].value
        p == ReqDir \o v
    IN  resp.ran = "delete" /\ OneSegment(v) /\ p \in DOMAIN pre
        => /\ fs = Without(pre, SubTree(pre, p))
           /\ resp.result = Msg("Deleted", v)

\* C7: a rename either fails with both entries as they were, or succeeds
\* with the source name gone and the destination name there; it fails
\* whenever the destination name is already in the directory.
RenameNoPartialState ==
    LET a == req.body[1].value
        b == req.body[2].value
        pa == ReqDir \o a
        pb == ReqDir \o b
    IN  (/\ resp.ran = "rename" /\ Len(req.body) >= 2 /\ req.body[2].name = "4"
         /\ OneSegment(a) /\ OneSegment(b))
        => /\ pb \in DOMAIN pre => resp.result.msg # "Renamed"
           /\ resp.result.msg # "Renamed"
              => Below(fs, pa) = Below(pre, pa) /\ Below(fs, pb) = Below(pre, pb)
           /\ resp.result.msg = "Renamed"
              => pa \notin DOMAIN fs /\ pb \in DOMAIN fs

\* --------------------------------------------------------- read-only shares

\* The request names share n: its path is the prefix, the name, and then
\* nothing or a separator.
AddressedTo(rq, n) ==
    /\ StartsWith(rq.path, Append(prefix, n))
    /\ Len(rq.path) > Len(prefix) + 1 => rq.path[Len(prefix) + 2] = SEP

PostToReadOnly == req.method = "POST" /\ \E n \in ro : AddressedTo(req, n)

\* C3 as the specification states it: every POST addressed to a read-only
\* share is answered 405 and runs no mutation handler.
ReadOnlyEnforced ==
    PostToReadOnly => resp.status = 405 /\ resp.ran = "" /\ fs = pre

\* C3: no POST addressed to a read-only share runs a mutation handler or
\* changes the filesystem; it is answered 405 with Allow: GET when it gets as
\* far as routing, that is when it is not sent to HTTPS, has no query string
\* and has no repeated separator in its path.
ReadOnlyEnforcedRouted ==
    PostToReadOnly
    => /\ resp.ran = "" /\ fs = pre
       /\ (~_https_redirect(req) /\ ~req.query /\ Collapse(req.path) = req.path)
          => resp.status = 405 /\ resp.allow = {"GET"}

\* A POST below a read-only share, over HTTPS with the redirect set up, was
\* answered 405.
ReadOnlyEnforcedWitness ==
    /\ PostToReadOnly /\ resp.status = 405
    /\ https # <<>> /\ req.secure
    /\ req.path = <<SEP, "r", SEP, "x", SEP, "y">>

\* ------------------------------------------------------ rename, there and back

\* The last two requests were successful renames A -> B and B -> A in one
\* directory, A an entry of it and B not, before the first.
RenamedBack ==
    /\ resp.ran = "rename" /\ resp.result.msg = "Renamed"
    /\ prev.resp.ran = "rename" /\ prev.resp.result.msg = "Renamed"
    /\ req.path = prev.req.path
    /\ req.body[1].value = prev.req.body[2].value
    /\ req.body[2].value = prev.req.body[1].value
    /\ OneSegment(req.body[1].value) /\ OneSegment(req.body[2].value)
    /\ (ReqDir \o req.body[2].value) \in DOMAIN prev.pre
    /\ (ReqDir \o req.body[1].value) \notin DOMAIN prev.pre

Destinations ==
    {resp.calls[i].path : i \in {j \in 1..Len(resp.calls) : resp.calls[j].role = "dst"}}

\* C9: when the destination name of a copy or move is already in the
\* directory, the request reports that the target exists and changes
\* nothing.
CopyMoveNeverOverwrites ==
    resp.ran = "copy_move"
    => \A d \in Destinations :
         d \in DOMAIN pre => resp.result.msg = "Target exists" /\ fs = pre

\* The route of the source of the last copy/move request.
SourceRoute == _web_path(Collapse(urljoin(req.path, req.body[2].value)), "")

\* The last request was a copy or move with a source in a read-only share
\* or the home page.
FromReadOnly ==
    /\ resp.ran = "copy_move" /\ Len(req.body) >= 2 /\ req.body[2].name = "6"
    /\ req.body[1].value \in {<<"cp">>, <<"mv">>}
    /\ SourceRoute.exc = "" /\ ~SourceRoute.app /\ SourceRoute.readonly

Refused == resp.result = Msg("Target read-only. Move not allowed.", <<>>)

\* Where the last request wrote copies.
Written ==
    {resp.calls[i].path :
        i \in {j \in 1..Len(resp.calls) : resp.calls[j].op \in {"copytree", "copy2"}}}

\* C10 as the specification states it: mv from a read-only source is
\* refused and changes nothing; cp from it is not refused and leaves the
\* source unchanged.
MoveFromReadOnlyRefused ==
    FromReadOnly
    => /\ req.body[1].value = <<"mv">> => Refused /\ fs = pre
       /\ req.body[1].value = <<"cp">>
          => /\ ~Refused
             /\ ~SourceRoute.home
                => Below(fs, SourceRoute.root) = Below(pre, SourceRoute.root)

\* C10: mv from a read-only source is refused and changes nothing; cp from
\* it is not refused, and leaves the read-only share unchanged unless the
\* copy is written inside that share's own root.
MoveFromReadOnlyRefusedOutside ==
    FromReadOnly
    => /\ req.body[1].value = <<"mv">> => Refused /\ fs = pre
       /\ req.body[1].value = <<"cp">>
          => /\ ~Refused
             /\ (~SourceRoute.home /\ \A t \in Written : ~IsPrefix(SourceRoute.root, t))
                => Below(fs, SourceRoute.root) = Below(pre, SourceRoute.root)

\* A move of a file of a read-only share was refused after a copy of it
\* went through.
MoveFromReadOnlyWitness ==
    /\ FromReadOnly /\ req.body[1].value = <<"mv">> /\ Refused
    /\ req.body[2].value = <<SEP, "r", SEP, "b">>
    /\ <<"w", "b">> \in DOMAIN fs

\* ------------------------------------------------------ what a copy leaves

\* The entry the source URL of the last copy/move request names, as typed.
SourceEntry == SourceRoute.root \o SourceRoute.rest

\* Where the last request pasted: the destination of its copy or move call.
Pasted ==
    {resp.calls[i].path :
        i \in {j \in 1..Len(resp.calls) :
                  resp.calls[j].op \in {"copytree", "copy2", "move"}}}

\* Below t the filesystem g has what f had below s: the same names, each of
\* the same kind, a link with the same target and a file with the same
\* content.
Mirrors(f, s, g, t) ==
    \A q \in SubTree(f, s) :
        ReRoot(q, s, t) \in DOMAIN g /\ g[ReRoot(q, s, t)] = f[q]

PastedOk ==
    /\ resp.ran = "copy_move" /\ resp.result.msg = "Pasted"
    /\ SourceEntry \in DOMAIN pre

\* C11: after a copy whose source is a symlink the destination is a symlink
\* (the same link, not a copy of what it points to), and after a copy or a
\* move of a directory the destination has every entry the source had,
\* links as links.
CopyPreservesSymlinks ==
    PastedOk
    => \A t \in Pasted :
         /\ req.body[1].value = <<"cp">> /\ pre[SourceEntry].kind = "link"
            => t \in DOMAIN fs /\ fs[t] = pre[SourceEntry]
         /\ pre[SourceEntry].kind = "dir" => Mirrors(pre, SourceEntry, fs, t)

\* C11 for sources that are directories: links inside are copied as links.
CopyKeepsContainedLinks ==
    PastedOk /\ pre[SourceEntry].kind = "dir"
    => \A t \in Pasted : Mirrors(pre, SourceEntry, fs, t)

\* A directory with a link in it was copied.
CopyKeepsContainedLinksWitness ==
    /\ PastedOk /\ req.body[1].value = <<"cp">>
    /\ pre[SourceEntry].kind = "dir"
    /\ \E q \in SubTree(pre, SourceEntry) : pre[q].kind = "link"

\* ------------------------------------------------------ the multipart reader

\* C12: a request that ran a mutation handler (upload, mkdir, delete,
\* rename, copy/move) ended with reader.release() awaited, whatever way the
\* handler was left.
ReaderReleased == resp.ran # "" => resp.released

\* ------------------------------------------------------- a missing source

\* The last request was a delete or a rename of a one-segment name that was
\* not in the directory.
MissingSource ==
    /\ \/ resp.ran = "delete"
       \/ /\ resp.ran = "rename" /\ Len(req.body) >= 2 /\ req.body[2].name = "4"
          /\ OneSegment(req.body[2].value)
    /\ OneSegment(req.body[1].value)
    /\ (ReqDir \o req.body[1].value) \notin DOMAIN pre

\* C13: a delete or a rename whose source name is not in the directory is
\* answered as NotFound (404) and leaves the filesystem as it was.
MissingSourceNotFound == MissingSource => resp.status = 404 /\ fs = pre

\* C13, the half about the filesystem alone.
MissingSourceNoChange == MissingSource => fs = pre

\* -------------------------------------------------------------- the registry

\* The flags the server acts on for name k: the home page leaves k out
\* (line 405), the router refuses anything but GET (line 246), the listing
\* shows the entries (line 453).
HiddenInEffect(k) == k \notin _get_mainpage

ReadOnlyInEffect(k) == _web_path(prefix \o <<k>>, "").readonly

ListableInEffect(k) == k \in ld

StoppedEarly == resp.ran = "" /\ resp.calls = <<>> /\ fs = pre

\* C15 as the specification states it: every request with a query string
\* is answered 400 and stops before routing.
QueryRejected == req.query => resp.status = 400 /\ StoppedEarly

\* C15: every request with a query string stops before routing; it is
\* answered 400, unless the HTTPS redirect applies to it, which answers it
\* 308 first.
QueryRejectedAfterHttps ==
    req.query
    => /\ StoppedEarly
       /\ resp.status = IF _https_redirect(req) THEN 308 ELSE 400

\* A POST with a query string to a read-only share, over HTTPS with the
\* redirect set up, was answered 400.
QueryRejectedWitness ==
    /\ req.query /\ req.method = "POST" /\ req.path = R
    /\ https # <<>> /\ req.secure
    /\ resp.status = 400

\* ------------------------------------------------------- HTTPS enforcement

Receiving ==
    {resp.calls[i].path :
        i \in {j \in 1..Len(resp.calls) :
                  /\ resp.calls[j].op = "read_chunk"
                  /\ \A m \in (j + 1)..Len(resp.calls) :
                        resp.calls[m].op # "read_chunk"}}

\* The last request was an upload cancelled while file number resp.tried
\* was being written.
CancelledMidUpload ==
    /\ resp.ran = "upload" /\ resp.tried >= 1
    /\ req.body[resp.tried].cancel # ""
    /\ Cardinality({j \in 1..Len(resp.calls) : resp.calls[j].op = "read_chunk"})
         = resp.tried

\* C17: when the client disconnects while an upload is being written, the
\* partially written file is removed, as on the other failure paths of the
\* upload.
CancelRemovesPartial ==
    CancelledMidUpload => \A p \in Receiving : p \notin DOMAIN fs

\* C17 where asyncio.CancelledError is an Exception (Python 3.6 and 3.7).
CancelRemovesPartialCaught ==
    CancelledMidUpload /\ req.body[resp.tried].cancel = "Exception"
    => \A p \in Receiving : p \notin DOMAIN fs

\* An upload of a new name was cancelled and caught.
CancelRemovesPartialCaughtWitness ==
    /\ CancelledMidUpload /\ req.body[resp.tried].cancel = "Exception"
    /\ Receiving = {<<"w", "n">>}

\* ------------------------------------------------------------ slow mutations

\* The filesystem call in progress.
Running == job.out.resp.calls[Len(job.out.resp.calls)]

\* The calls that can take long: a recursive delete, a directory copy, a
\* move (of a directory, or of a file to another filesystem).
SlowInProgress == job # NoJob /\ Running.op \in {"rmtree", "copytree", "move"}

\* C18: while a recursive delete, a directory copy or a move is in
\* progress it runs on the worker pool, its request suspended, and another
\* request can be routed and answered.
NoStall ==
    SlowInProgress
    => /\ job.on = "pool"
       /\ nreq < MaxReq => ENABLED Meanwhile

\* A directory listing was answered while a directory copy was in progress.
NoStallWitness ==
    /\ SlowInProgress /\ Running.op = "copytree"
    /\ nreq = job.at + 2
    /\ req.method = "GET" /\ resp.status = 200 /\ resp.kind = "dir"

\* ------------------------------------------------------------------ prefix

\* "/" or one segment with a separator on both ends.
SingleSegmentPrefix(p) ==
    \/ p = <<SEP>>
    \/ Len(p) = 3 /\ p[1] = SEP /\ p[2] # SEP /\ p[3] = SEP

\* C19: the constructor makes a server with the prefix given exactly when
\* the prefix is "/" or one segment between two separators; every other
\* value is rejected with the argument error (ValueError).
PrefixValidated ==
    call.op = "__init__"
    => /\ call.exc = "" <=> SingleSegmentPrefix(call.arg)
       /\ call.exc = "" => prefix = call.arg
       /\ call.exc # "" => call.exc = "ValueError"

\* C19 for the values without a separator at one of the ends.
PrefixEndsChecked ==
    /\ call.op = "__init__" /\ call.arg # <<>>
    /\ (call.arg[1] # SEP \/ call.arg[Len(call.arg)] # SEP)
    => call.exc = "ValueError"

\* ------------------------------------------------------- separator collapse

\* The last request was redirected to the collapsed form of its path.
RedirectedToCanonical ==
    /\ resp.kind = "redirect" /\ resp.status = 301
    /\ Collapse(req.path) # req.path

\* C20: collapsing the runs of separators of a request path twice gives
\* what collapsing once gives, and the path a request is redirected to for
\* repeated separators has none, so a request of it is not redirected for
\* them again: when it is redirected, it is for its trailing separator.
CollapseIdempotent ==
    nreq > 0
    => /\ Collapse(Collapse(req.path)) = Collapse(req.path)
       /\ RedirectedToCanonical
          => /\ resp.loc = Collapse(req.path)
             /\ \A i \in 1..(Len(resp.loc) - 1) :
                   ~(resp.loc[i] = SEP /\ resp.loc[i + 1] = SEP)
             /\ ~(LET Again(out) ==
                          /\ out.resp.kind = "redirect"
                          /\ out.resp.loc # Append(resp.loc, SEP)
                          /\ Append(out.resp.loc, SEP) # resp.loc
                   IN  Again(_request_handler(fs, [req EXCEPT !.path = resp.loc,
                                                              !.secure = TRUE])))

\* A path with a run of three separators was redirected.
CollapseIdempotentWitness ==
    /\ RedirectedToCanonical
    /\ req.path = <<SEP, SEP, SEP, "w", SEP>>
    /\ resp.loc = <<SEP, "w", SEP>>

\* --------------------------------------------------------- redirect chains

\* The redirect just received sends the client to the path whose redirect
\* it followed to get here.
BackAndForth ==
    /\ nreq > 1
    /\ IsRedirect(prev.resp) /\ IsRedirect(resp)
    /\ resp.loc = prev.req.path
    /\ resp.status # 308

\* The rules that redirect: HTTPS, separator collapse, missing prefix,
\* trailing separator of a directory, trailing separator of a file.
RedirectRules == {"https", "collapse", "prefix", "directory", "file"}

\* C21: a client that follows the redirects has its answer after at most
\* one request for each redirect rule and one more, and no redirect sends
\* it back to the path it was just redirected from.
RedirectChainsTerminate ==
    /\ nreq > Cardinality(RedirectRules) => ~IsRedirect(resp)
    /\ ~BackAndForth

\* Under a prefix without repeated separators the chains end, and no
\* redirect sends the client back.
RedirectChainsTerminateCollapsedPrefix ==
    Collapse(prefix) = prefix => RedirectChainsTerminate

\* A chain of three redirects under the prefix /p/ that ended with a page.
RedirectChainsTerminateCollapsedPrefixWitness ==
    /\ prefix = <<SEP, "p", SEP>>
    /\ nreq = 4 /\ resp.status = 200 /\ resp.kind = "dir"

\* ------------------------------------------------- copy and move, interleaved

\* The call the last answered copy or move made on its worker.
Executed == resp.calls[Len(resp.calls)]

\* The last answer is that of a copy or move whose call found, at its
\* destination, an entry another request had created after the existence
\* check.
DestinationTaken ==
    /\ resp.ran = "copy_move" /\ resp.calls # <<>>
    /\ Executed.op \in {"copytree", "copy2", "move"}
    /\ prev.resp.ran = "upload"
    /\ Executed.path \notin DOMAIN prev.pre
    /\ Executed.path \in DOMAIN pre

\* C22: a copy or move whose destination was free at the existence check
\* leaves an entry another request created there before the call as it
\* was: not overwritten, not truncated, nothing moved into it.
NoClobberUnderInterleaving ==
    DestinationTaken
    => \A q \in (DOMAIN pre) \cup (DOMAIN fs) :
           IsPrefix(Executed.path, q)
           => q \in DOMAIN pre /\ q \in DOMAIN fs /\ fs[q] = pre[q]

\* A directory copied to a name taken meanwhile fails and changes nothing.
CopytreeKeepsTaken ==
    DestinationTaken /\ Executed.op = "copytree"
    => fs = pre /\ resp.result.msg = "Paste failed"

\* A directory copy found its destination taken by an upload.
CopytreeKeepsTakenWitness == DestinationTaken /\ Executed.op = "copytree"

\* --------------------------------------------------------- read-only content

\* The tree under /r, the root of the read-only share r, is the one the
\* server started on.
ReadOnlyTree(f) == [q \in {x \in DOMAIN f : IsPrefix(<<"r">>, x)} |-> f[q]]

\* C23: after any sequence of requests the file tree under the root of the
\* read-only share r, which no other share's root overlaps, is what it was
\* before the sequence.
ReadOnlyImmutable == ReadOnlyTree(fs) = ReadOnlyTree(BaseFS)

\* Under src/SimpleHTTPFileServer.py the tree under /r stays as it was.
ReadOnlyImmutable36 == nreq > 0 => ReadOnlyTree(fs) = ReadOnlyTree(pre)

\* A request that named the link into the read-only share was answered.
ReadOnlyImmutable36Witness ==
    /\ resp.ran = "upload" /\ resp.tried >= 1
    /\ req.body[1].filename = <<"l">>
    /\ pre[<<"w", "l">>].kind = "link" /\ pre[<<"w", "l">>].target = <<"r", "n">>

\* ------------------------------------------------------------------ removal

\* The last call was remove(name) and it returned.
Removed == call.op = "remove" /\ call.exc = ""

\* C24: after remove(name) the name is in none of the four tables, and in
\* every state the three flag sets hold registered names only.
RemovalLeavesNothing ==
    /\ Removed => call.arg[1] \notin (DOMAIN fd) \cup ro \cup hd \cup ld
    /\ (ro \cup hd \cup ld) \subseteq DOMAIN fd

\* remove(name) takes the name out of the targets, the hidden names and the
\* read-only names.
RemovalClearsTargetHiddenReadOnly ==
    Removed => call.arg[1] \notin (DOMAIN fd) \cup ro \cup hd

\* The read-only share v of Init was removed.
RemovalClearsTargetHiddenReadOnlyWitness ==
    Removed /\ call.arg = <<"v">> /\ call.n = 1

\* remove of a name that is not registered raises ValueError and leaves the
\* four tables as they were.
RemovalOfUnknownFails ==
    [][call'.op = "remove" /\ call'.n # call.n /\ call'.arg[1] \notin DOMAIN fd
       => call'.exc = "ValueError" /\ UNCHANGED <<fd, ro, hd, ld>>]_vars

\* ------------------------------------------------------------ POST to a file

\* The last request was a POST that got past the redirects and the query
\* test, and whose path is that of a regular file of a writable share.
PostToFile ==
    /\ nreq > 0 /\ req.method = "POST"
    /\ ~_https_redirect(req) /\ ~req.query /\ Collapse(req.path) = req.path
    /\ LET IsFile(c) == c.exc = "" /\ is_file(pre, c.res)
           Routed(wpres) ==
               /\ wpres.exc = "" /\ ~wpres.app /\ ~wpres.home
               /\ IsFile(_local_path_check(pre, wpres.root \o wpres.rest, wpres.root,
                                           TRUE))
       IN  Routed(_web_path(req.path, req.method))

\* C25: a POST to a regular file of a writable share is answered 405 with
\* Allow: GET, runs no mutation handler and leaves the filesystem as it was.
PostToFileMethodNotAllowed ==
    PostToFile
    => /\ resp.status = 405 /\ resp.allow = {"GET"}
       /\ resp.ran = "" /\ fs = pre

\* A POST to a regular file of a writable share runs no mutation handler and
\* leaves the filesystem as it was; the answer is 500.
PostToFileRunsNothing ==
    PostToFile => resp.status = 500 /\ resp.ran = "" /\ fs = pre

\* A POST to the file /w/a was answered.
PostToFileRunsNothingWitness == PostToFile /\ req.path = <<SEP, "w", SEP, "a">>

\* The Python 3.5 port answers a POST to a regular file with 400.
PostToFile35BadRequest ==
    req.method = "POST" /\ req.path = <<SEP, "w", SEP, "a">>
    => resp.status = 400 /\ resp.ran = "" /\ fs = pre

\* ---------------------------------------------------------- start and stop

\* The endpoints recorded in self._lpsvr.
Recorded == {lpsvr[i] : i \in 1..Len(lpsvr)}

\* The last call was a start that raised.
StartFailed == call.op = "__aenter__" /\ call.exc # ""

\* C26: the listeners recorded are the listeners active; after a start that
\* raised none is active or recorded; after a start that returned every
\* endpoint is listened on; after a stop none is.
StartStopAllOrNothing ==
    /\ Recorded = net.listening
    /\ StartFailed => lpsvr = <<>> /\ net.listening = {}
    /\ call.op = "__aenter__" /\ call.exc = "" => lpsvr = Listen
    /\ call.op = "__aexit__" => lpsvr = <<>> /\ net.listening = {}

\* The listeners recorded are the listeners active; a start that returned
\* left the server listening on every endpoint or, when it was running on
\* some already, as it was; after a stop, and after a run that raised,
\* nothing is recorded or active.
StartStopConsistent ==
    /\ Recorded = net.listening
    /\ call.op = "__aenter__" /\ call.exc = "" => lpsvr # <<>>
    /\ call.op = "__aexit__" => lpsvr = <<>> /\ net.listening = {}
    /\ call.op = "run" /\ call.exc # "" => lpsvr = <<>> /\ net.listening = {}

\* The server was started, stopped and started again.
StartStopConsistentWitness ==
    /\ call.n = 3 /\ call.op = "__aenter__" /\ call.exc = "" /\ lpsvr = Listen

\* A start of a server that has a listener recorded changes nothing.
StartWhenRunningNoOp ==
    [][call'.op = "__aenter__" /\ call'.n # call.n /\ lpsvr # <<>>
       => call'.exc = "" /\ UNCHANGED <<lpsvr, net>>]_vars

============================================================================
